---------------------------- MODULE Spec2Model ----------------------------
(***************************************************************************)
(* A model of the valenpii particle animation: the particle store and its  *)
(* per-frame update (src/unnamed/part_004, ParticleSystem), the shape      *)
(* point generator, the shake controller and the bloom controller          *)
(* (src/src/main.js) and the frame loop (src/src/core/App.js).             *)
(*                                                                         *)
(* Numbers.  JavaScript numbers are modelled by integers in fixed units:   *)
(*   - mixes, bloomFactor and tween values in hundredths (MixOne = 1.0);   *)
(*   - Math.random() draws, pulse life, sines and cosines in thousandths   *)
(*     (Unit = 1.0);                                                       *)
(*   - positions in world units, velocities in world units per second,     *)
(*     times and dt in milliseconds.                                       *)
(* Products are divided back with TDiv, which truncates toward zero.       *)
(* NaN is a value of its own: every arithmetic operator below propagates   *)
(* it and every comparison with it is false, as in IEEE 754.               *)
(*                                                                         *)
(* Size.  The store holds MaxParticles records instead of 25000; the       *)
(* index ranges the controllers use (the bloom pool, the number of shape   *)
(* points) are scaled with it.  The desktop tier (innerWidth >= 600,       *)
(* aspect >= 1) is the one modelled.                                       *)
(***************************************************************************)
EXTENDS Integers, Sequences, FiniteSets, TLC

\* ------------------------------------------------------------------ units
Unit == 1000
MixOne == 100
NaN == 0 - (Unit * Unit * Unit)

IsNum(a) == a # NaN

Abs(a) == IF a < 0 THEN 0 - a ELSE a
Sign(a) == IF a < 0 THEN 0 - 1 ELSE IF a > 0 THEN 1 ELSE 0
Min(a, b) == IF a < b THEN a ELSE b
Max(a, b) == IF a > b THEN a ELSE b

\* a / b truncated toward zero (b > 0)
TDiv(a, b) == IF a < 0 THEN 0 - ((0 - a) \div b) ELSE a \div b

\* IEEE arithmetic on model numbers: NaN in, NaN out
Add(a, b) == IF a = NaN \/ b = NaN THEN NaN ELSE a + b
Sub(a, b) == IF a = NaN \/ b = NaN THEN NaN ELSE a - b
Mul(a, b) == IF a = NaN \/ b = NaN THEN NaN ELSE a * b
\* a * b / d, with d > 0 a unit of the model
MulDiv(a, b, d) == IF a = NaN \/ b = NaN THEN NaN ELSE TDiv(a * b, d)
\* a > b in JavaScript: false when either side is NaN
Gt(a, b) == a # NaN /\ b # NaN /\ a > b
Lt(a, b) == a # NaN /\ b # NaN /\ a < b
\* Math.min / Math.max: NaN when either argument is NaN
MathMin(a, b) == IF a = NaN \/ b = NaN THEN NaN ELSE Min(a, b)
MathMax(a, b) == IF a = NaN \/ b = NaN THEN NaN ELSE Max(a, b)

\* floor(sqrt(n)) for n >= 0
RECURSIVE SqrtBin(_, _, _)
SqrtBin(n, lo, hi) ==
    IF lo >= hi THEN lo
    ELSE LET mid == (lo + hi + 1) \div 2
         IN  IF mid * mid <= n THEN SqrtBin(n, mid, hi) ELSE SqrtBin(n, lo, mid - 1)
Sqrt(n) == IF n = NaN THEN NaN ELSE SqrtBin(n, 0, Min(n, 46340))

\* vectors (x, y, z)
Vec(a, b, c) == <<a, b, c>>
Zero3 == <<0, 0, 0>>
VAdd(u, v) == <<Add(u[1], v[1]), Add(u[2], v[2]), Add(u[3], v[3])>>
VSub(u, v) == <<Sub(u[1], v[1]), Sub(u[2], v[2]), Sub(u[3], v[3])>>
Dot(u, v) == Add(Add(Mul(u[1], v[1]), Mul(u[2], v[2])), Mul(u[3], v[3]))
NormSq(u) == Dot(u, u)
VIsNum(u) == u[1] # NaN /\ u[2] # NaN /\ u[3] # NaN

\* ----------------------------------------------------- trigonometry
\* Angles are twelfths of a turn (k * 2*pi / 12); sines and cosines in
\* thousandths.  Math.random() * Math.PI * 2 with a draw r that is a whole
\* number of twelfths gives the angle Twelfths(r).
CosTab == <<1000, 866, 500, 0, -500, -866, -1000, -866, -500, 0, 500, 866>>
Cos12(k) == CosTab[(k % 12) + 1]
Sin12(k) == Cos12(k + 9)
\* Math.random() * Math.PI * 2 as twelfths of a turn (r in thousandths)
Twelfths(r) == (r * 12) \div Unit
\* phi = Math.acos(2 * r - 1): cos(phi) and sin(phi) in thousandths
CosPhi(r) == 2 * r - Unit
SinPhi(r) == Sqrt(Unit * Unit - CosPhi(r) * CosPhi(r))
\* radius * (sin(phi)cos(theta), sin(phi)sin(theta), cos(phi))
Spherical(radius, rTheta, rPhi) ==
    Vec(TDiv(TDiv(radius * SinPhi(rPhi), Unit) * Cos12(Twelfths(rTheta)), Unit),
        TDiv(TDiv(radius * SinPhi(rPhi), Unit) * Sin12(Twelfths(rTheta)), Unit),
        TDiv(radius * CosPhi(rPhi), Unit))
\* lo + Math.random() * span
Ranged(lo, span, r) == lo + TDiv(r * span, Unit)
\* (Math.random() - 0.5) * amp
Centred(r, amp) == TDiv((r - Unit \div 2) * amp, Unit)

\* ------------------------------------------------------------ bounds
\* particle capacity (maxParticles, scaled down)
MaxParticles == 3
\* frames (App.render calls) a behaviour may hold
MaxFrames == 2

\* ------------------------------------------------- program constants
ShapeShareTenths == 7
Friction == 992
MinSpeedSq == 1600
DomainRadius == 4000
SpawnDist == 2500
PulseThickness == 70
PulseCap == 10
CameraZ == 600
MaxDt == 50

Idx == 0 .. (MaxParticles - 1)
\* Math.floor(this.maxParticles * 0.7)
ShapeLimit == (MaxParticles * ShapeShareTenths) \div 10

VARIABLES
    appPhase,      \* "constructed" until App.init has run, then "running"
    particles,     \* ParticleSystem.particles: index -> particle record
    positions,     \* geometry position attribute: index -> render position
    pulses,        \* ParticleSystem.pulses, oldest first
    mouse,         \* App.mouse (thousandths of the normalised device range)
    frames         \* App.render calls so far

\* ---------------------------------------------------- ParticleSystem
\* One record of createPool: random draws rnd = [radius, theta, phi, speed,
\* ang, vz], each a Math.random() result in thousandths.
NewParticle(i, rnd) ==
    LET role == IF i < ShapeLimit THEN "shape" ELSE "background"
        radius == IF role = "background" THEN Ranged(600, 1200, rnd.radius)
                  ELSE Ranged(1000, 1000, rnd.radius)
        r == Spherical(radius, rnd.theta, rnd.phi)
        speed == Ranged(120, 100, rnd.speed)
        impulse == Ranged(120, 80, rnd.speed)
        k == Twelfths(rnd.ang)
        v == IF role = "background"
             THEN Vec(0 - TDiv(r[1] * speed, radius), 0 - TDiv(r[2] * speed, radius),
                      0 - TDiv(r[3] * speed, radius))
             ELSE Vec(TDiv(Cos12(k) * impulse, Unit), TDiv(Sin12(k) * impulse, Unit),
                      Centred(rnd.vz, impulse))
    IN  [pos |-> r, vel |-> v, role |-> role, state |-> "chaos",
         bloom |-> Zero3, bloomMix |-> 0, shape |-> r, shapeMix |-> 0]

\* createPool(count): a fresh store of maxParticles records
createPool(rnds) == [i \in Idx |-> NewParticle(i, rnds[i])]

\* a * (1 - mix) + b * mix
Lerp(a, b, mix) == Add(MulDiv(a, Sub(MixOne, mix), MixOne), MulDiv(b, mix, MixOne))
VLerp(u, v, mix) == Vec(Lerp(u[1], v[1], mix), Lerp(u[2], v[2], mix), Lerp(u[3], v[3], mix))

\* mutant of RenderPos: the bloom overlay is left out
RenderPosWithoutBloom(p) == VLerp(p.pos, p.shape, p.shapeMix)

\* BLENDED RENDERING: base / shape interpolation, then the bloom overlay
RenderPos(p) == VLerp(VLerp(p.pos, p.shape, p.shapeMix), p.bloom, p.bloomMix)

\* One pulse acting on one particle (the forEach body): the new velocity.
\* kick is the Math.random() draw of the z-kick.
PulsePush(p, pulse, dt, kick) ==
    LET den == MathMax(1, Sub(CameraZ, p.pos[3]))
        apparentX == IF den = NaN THEN NaN ELSE MulDiv(p.pos[1], CameraZ, den)
        apparentY == IF den = NaN THEN NaN ELSE MulDiv(p.pos[2], CameraZ, den)
        dx == Sub(apparentX, pulse.x)
        dy == Sub(apparentY, pulse.y)
        age == Unit - pulse.life
        currentRadius == TDiv(pulse.maxRadius * age, Unit)
        \* dist >= |dx| and dist >= |dy|: beyond the shell on one axis, beyond it
        far == den = NaN \/ Abs(dx) >= currentRadius + PulseThickness
                   \/ Abs(dy) >= currentRadius + PulseThickness
        dist == IF far THEN NaN ELSE Sqrt(dx * dx + dy * dy)
        diff == IF far THEN NaN ELSE Abs(dist - currentRadius)
    IN  IF Lt(diff, PulseThickness)
        THEN LET \* (1 - diff / thickness) * strength * life * dt, in thousandths
                 force == TDiv((PulseThickness - diff) * pulse.strength * pulse.life * dt,
                               PulseThickness * Unit)
                 mag == IF dist = 0 THEN 1 ELSE dist
             IN  Vec(Add(p.vel[1], TDiv(TDiv(dx * force, mag) * den, CameraZ * Unit)),
                     Add(p.vel[2], TDiv(TDiv(dy * force, mag) * den, CameraZ * Unit)),
                     Add(p.vel[3], TDiv(TDiv((kick - Unit \div 2) * force, Unit), 2 * Unit)))
        ELSE p.vel

\* this.pulses.forEach(...) for one particle
RECURSIVE Pulsed(_, _, _, _)
Pulsed(p, ps, dt, kick) ==
    IF ps = <<>> THEN p
    ELSE Pulsed([p EXCEPT !.vel = PulsePush(p, Head(ps), dt, kick)], Tail(ps), dt, kick)

Scaled(v, num, den) == Vec(MulDiv(v[1], num, den), MulDiv(v[2], num, den), MulDiv(v[3], num, den))

\* BASE PHYSICS (the "chaos" drift): friction, then the minimum-vitality
\* boost of a slow background star or the Brownian jitter of a shape star
ChaosDrift(p, rnd) ==
    IF p.state = "chaos"
    THEN LET v == Scaled(p.vel, Friction, Unit)
         IN  IF p.role = "background"
             THEN IF Lt(NormSq(v), MinSpeedSq)
                  THEN [p EXCEPT !.vel = VAdd(Scaled(v, 105, 100),
                                              Vec(Centred(rnd.jx, 5), Centred(rnd.jy, 5),
                                                  Centred(rnd.jz, 5)))]
                  ELSE [p EXCEPT !.vel = v]
             ELSE [p EXCEPT !.vel = VAdd(v, Vec(Centred(rnd.jx, 2), Centred(rnd.jy, 2),
                                                Centred(rnd.jz, 2)))]
    ELSE p

\* p.x += p.vx * dt (every particle, whatever its state)
Integrate(p, dt) == [p EXCEPT !.pos = VAdd(p.pos, Scaled(p.vel, dt, Unit))]

\* ATMOSPHERIC DRIFT: a background star turns by 0.15 * dt about the y axis
\* (sine and cosine of the small angle to second order, in millionths)
Rotate(p, dt) ==
    IF p.role = "background"
    THEN LET sinM == 150 * dt
             \* 1 - cos, so that x * cos = x - x * (1 - cos)
             versM == (sinM * sinM) \div (2 * Unit * Unit)
             xCos == Sub(p.pos[1], MulDiv(p.pos[1], versM, Unit * Unit))
             zCos == Sub(p.pos[3], MulDiv(p.pos[3], versM, Unit * Unit))
         IN  [p EXCEPT !.pos = Vec(Sub(xCos, MulDiv(p.pos[3], sinM, Unit * Unit)),
                                   p.pos[2],
                                   Add(MulDiv(p.pos[1], sinM, Unit * Unit), zCos))]
    ELSE p

\* the point the recycled particle is aimed at: the "outer ring"
RecycleTarget(rnd) == Spherical(Ranged(1500, 1000, rnd.tRadius), rnd.tTheta, rnd.tPhi)

\* mutant of Recycle: the particle respawns on the rim of the domain
RecycleAtRim(p, rnd) ==
    IF Gt(NormSq(p.pos), DomainRadius * DomainRadius)
    THEN LET at == Spherical(DomainRadius, rnd.theta, rnd.phi)
             d == VSub(RecycleTarget(rnd), at)
             len == Sqrt(NormSq(d))
             dMag == IF len = 0 THEN 1 ELSE len
             speed == Ranged(120, 150, rnd.speed)
         IN  [p EXCEPT !.pos = at,
                       !.vel = Vec(TDiv(d[1] * speed, dMag), TDiv(d[2] * speed, dMag),
                                   TDiv(d[3] * speed, dMag))]
    ELSE p

\* GLOBAL LOOPING / RECYCLING of a particle beyond the domain radius
Recycle(p, rnd) ==
    IF Gt(NormSq(p.pos), DomainRadius * DomainRadius)
    THEN LET at == Spherical(SpawnDist, rnd.theta, rnd.phi)
             d == VSub(RecycleTarget(rnd), at)
             len == Sqrt(NormSq(d))
             dMag == IF len = 0 THEN 1 ELSE len
             speed == Ranged(120, 150, rnd.speed)
         IN  [p EXCEPT !.pos = at,
                       !.vel = Vec(TDiv(d[1] * speed, dMag), TDiv(d[2] * speed, dMag),
                                   TDiv(d[3] * speed, dMag))]
    ELSE p

\* mutant of StepParticle: the boundary test runs before the integration
StepParticleRecycleFirst(p, ps, dt, rnd) ==
    Rotate(Integrate(ChaosDrift(Pulsed(Recycle(p, rnd), ps, dt, rnd.kick), rnd), dt), dt)

\* the loop body of update up to the blend, for one particle
StepParticle(p, ps, dt, rnd) ==
    Recycle(Rotate(Integrate(ChaosDrift(Pulsed(p, ps, dt, rnd.kick), rnd), dt), dt), rnd)

\* mutant of Decayed: the decay rate 1.5 is left out
DecayedByDt(ps, dt) ==
    LET aged == [k \in 1 .. Len(ps) |-> [ps[k] EXCEPT !.life = @ - dt]]
    IN  SelectSeq(aged, LAMBDA q : q.life > 0)

\* this.pulses.forEach(p => p.life -= dt * 1.5); filter(p => p.life > 0)
Decayed(ps, dt) ==
    LET aged == [k \in 1 .. Len(ps) |-> [ps[k] EXCEPT !.life = @ - (3 * dt) \div 2]]
    IN  SelectSeq(aged, LAMBDA q : q.life > 0)

\* mutant of addPulse: the list is not shifted at the cap
addPulseUncapped(ps, x, y, strength, radius) ==
    Append(ps, [x |-> x, y |-> y, strength |-> strength, maxRadius |-> radius, life |-> Unit])

\* addPulse(x, y, strength, radius)
addPulse(ps, x, y, strength, radius) ==
    LET more == Append(ps, [x |-> x, y |-> y, strength |-> strength,
                            maxRadius |-> radius, life |-> Unit])
    IN  IF Len(more) > PulseCap THEN Tail(more) ELSE more

\* ---------------------------------------------------- ShapeGenerator
Pt(x, y, z) == [x |-> x, y |-> y, z |-> z]

\* The heart curve at parameter t = k twelfths of a turn, in thousandths:
\* hx = 16 sin^3 t, hy = -(13 cos t - 5 cos 2t - 2 cos 3t - cos 4t)
HeartX(k) == 16 * TDiv(TDiv(Sin12(k) * Sin12(k), Unit) * Sin12(k), Unit)
HeartY(k) == 0 - (13 * Cos12(k) - 5 * Cos12(2 * k) - 2 * Cos12(3 * k) - Cos12(4 * k))

\* generateHeartPoints(cx, cy, size, numPoints); rnds[i + 1] = [dx, dy, dz]
\* holds the three Math.random() draws of point i.  thickness = 40.
generateHeartPoints(cx, cy, size, numPoints, rnds) ==
    [j \in 1 .. numPoints |->
        LET k == ((j - 1) * 12) \div numPoints
            baseX == cx + TDiv(HeartX(k) * size, 16 * Unit)
            baseY == cy + TDiv(HeartY(k) * size, 16 * Unit)
        IN  Pt(baseX + Centred(rnds[j].dx, 40), baseY + Centred(rnds[j].dy, 40),
               Centred(rnds[j].dz, 80))]

\* path commands of the glyph outline (opentype.js Path.commands)
MoveTo(x, y) == [type |-> "M", x |-> x, y |-> y, x1 |-> 0, y1 |-> 0, x2 |-> 0, y2 |-> 0]
LineTo(x, y) == [type |-> "L", x |-> x, y |-> y, x1 |-> 0, y1 |-> 0, x2 |-> 0, y2 |-> 0]
QuadTo(x1, y1, x, y) == [type |-> "Q", x |-> x, y |-> y, x1 |-> x1, y1 |-> y1, x2 |-> 0, y2 |-> 0]
CurveTo(x1, y1, x2, y2, x, y) ==
    [type |-> "C", x |-> x, y |-> y, x1 |-> x1, y1 |-> y1, x2 |-> x2, y2 |-> y2]

\* Math.hypot(dx, dy) in hundredths
Hypot100(dx, dy) == Sqrt(10000 * (dx * dx + dy * dy))
\* Math.floor(dist / step): dist in hundredths, step in tenths
StepsOf(dist100, stepTenths) == dist100 \div (10 * stepTenths)

\* interpolateLine: the points pushed for one line segment
interpolateLine(x1, y1, x2, y2, step) ==
    LET steps == Max(1, StepsOf(Hypot100(x2 - x1, y2 - y1), step))
    IN  [i \in 1 .. steps |->
            Pt(x1 + TDiv((x2 - x1) * i, steps), y1 + TDiv((y2 - y1) * i, steps), 0)]

\* interpolateQuad: at least 5 points on the quadratic
interpolateQuad(x1, y1, cx, cy, x2, y2, step) ==
    LET dist == Hypot100(cx - x1, cy - y1) + Hypot100(x2 - cx, y2 - cy)
        steps == Max(5, StepsOf(dist, step))
    IN  [i \in 1 .. steps |->
            LET t == i
                invT == steps - i
                den == steps * steps
            IN  Pt(TDiv(invT * invT * x1 + 2 * invT * t * cx + t * t * x2, den),
                   TDiv(invT * invT * y1 + 2 * invT * t * cy + t * t * y2, den), 0)]

\* interpolateBezier: at least 10 points on the cubic
interpolateBezier(x1, y1, cx1, cy1, cx2, cy2, x2, y2, step) ==
    LET dist == Hypot100(cx1 - x1, cy1 - y1) + Hypot100(cx2 - cx1, cy2 - cy1)
                + Hypot100(x2 - cx2, y2 - cy2)
        steps == Max(10, StepsOf(dist, step))
    IN  [i \in 1 .. steps |->
            LET t == i
                invT == steps - i
                den == steps * steps * steps
            IN  Pt(TDiv(invT * invT * invT * x1 + 3 * invT * invT * t * cx1
                        + 3 * invT * t * t * cx2 + t * t * t * x2, den),
                   TDiv(invT * invT * invT * y1 + 3 * invT * invT * t * cy1
                        + 3 * invT * t * t * cy2 + t * t * t * y2, den), 0)]

\* path.commands.forEach(...): the sampled points, in path order.
\* cur is the pen position (curX, curY).
RECURSIVE SamplePath(_, _, _, _)
SamplePath(cmds, curX, curY, step) ==
    IF cmds = <<>> THEN <<>>
    ELSE LET cmd == Head(cmds)
             pts == CASE cmd.type = "M" -> <<Pt(cmd.x, cmd.y, 0)>>
                      [] cmd.type = "L" -> interpolateLine(curX, curY, cmd.x, cmd.y, step)
                      [] cmd.type = "Q" ->
                            interpolateQuad(curX, curY, cmd.x1, cmd.y1, cmd.x, cmd.y, step)
                      [] cmd.type = "C" ->
                            interpolateBezier(curX, curY, cmd.x1, cmd.y1, cmd.x2, cmd.y2,
                                              cmd.x, cmd.y, step)
                      [] OTHER -> <<>>
             known == cmd.type \in {"M", "L", "Q", "C"}
         IN  pts \o SamplePath(Tail(cmds), IF known THEN cmd.x ELSE curX,
                               IF known THEN cmd.y ELSE curY, step)

SeqMin(s, f(_)) == CHOOSE m \in {f(s[i]) : i \in 1 .. Len(s)} :
                        \A i \in 1 .. Len(s) : m <= f(s[i])
SeqMax(s, f(_)) == CHOOSE m \in {f(s[i]) : i \in 1 .. Len(s)} :
                        \A i \in 1 .. Len(s) : m >= f(s[i])
PX(p) == p.x
PY(p) == p.y

\* mutant of centerPoints: the points are moved by the bounding box's
\* least corner instead of its midpoint
centerPointsOnCorner(points) ==
    IF Len(points) = 0 THEN points
    ELSE LET minX == SeqMin(points, PX)
             minY == SeqMin(points, PY)
         IN  [i \in 1 .. Len(points) |-> Pt(points[i].x - minX, points[i].y - minY, 0)]

\* centerPoints: subtract the bounding-box midpoint (x and y; z is not kept)
centerPoints(points) ==
    IF Len(points) = 0 THEN points
    ELSE LET minX == SeqMin(points, PX)
             maxX == SeqMax(points, PX)
             minY == SeqMin(points, PY)
             maxY == SeqMax(points, PY)
             cx == minX + TDiv(maxX - minX, 2)
             cy == minY + TDiv(maxY - minY, 2)
         IN  [i \in 1 .. Len(points) |-> Pt(points[i].x - cx, points[i].y - cy, 0)]

\* mutant of generateTextPoints: the hard cap is left out
generateTextPointsUncut(font, path, textLength, maxPoints) ==
    IF ~font THEN <<>>
    ELSE centerPoints(SamplePath(path, 0, 0, IF textLength > 5 THEN 10 ELSE 6))

\* mutant of generateTextPoints: the pen's start (curX, curY) = (0, 0) is
\* pushed before anything else, font or no font
generateTextPointsFromPen(loaded, path, textLength, maxPoints) ==
    LET step == IF textLength > 5 THEN 10 ELSE 6
        points == <<Pt(0, 0, 0)>> \o (IF loaded THEN SamplePath(path, 0, 0, step) ELSE <<>>)
    IN  centerPoints(SubSeq(points, 1, Min(Len(points), maxPoints)))

\* generateTextPoints(text, x, y, fontSize, maxPoints): font is the loaded
\* font (FALSE when none), path the outline font.getPath returns for text
generateTextPoints(font, path, textLength, maxPoints) ==
    IF ~font THEN <<>>
    ELSE LET step == IF textLength > 5 THEN 10 ELSE 6
             points == SamplePath(path, 0, 0, step)
         IN  centerPoints(SubSeq(points, 1, Min(Len(points), maxPoints)))

\* ------------------------------------------------- program constants
ShakeThreshold == 8
SustainThreshold == 3
SustainTimeout == 1500
WarmupDelay == 2000
FormDuration == 1000
CelebrationDuration == 300
CelebrationPeak == 110
ScrollReleaseDelay == 1000
\* first index of the bloom pool (poolStart, scaled with the capacity)
PoolStart == 1
\* points of the bloom heart (heartPoints): the pool [poolStart, poolStart +
\* heartPoints) lies inside the shape indices, as 2000 .. 5999 does in 0 .. 17499
BloomHeartPoints == ShapeLimit - PoolStart
\* points of the shake heart (8000, scaled): they cover the bloom pool
ShakeHeartPoints == ShapeLimit
\* desktop sizes
HeartScale == 300

VARIABLES
    now,               \* the wall clock (Date.now()), ms
    isReady,           \* ShakeController.isReady
    warmupDue,         \* time at which the warm-up timer is due; -1: none pending
    isShaking,         \* ShakeController.isShaking
    lastShakeTime,     \* ShakeController.lastShakeTime
    currentShapeIndex, \* ShakeController.currentShapeIndex (0-based)
    tweens,            \* live gsap tweens, oldest first
    font               \* ShapeGenerator.font: "none" (null), "outlines" (the loaded
                       \* font), "blank" (a font with no outline for the catalogue)

shapes == <<"Love", "HEART_SHAPE", "Be Mine">>

\* The outline font.getPath returns for a catalogue text at the desktop font
\* size: "Love" samples to one point, "Be Mine" to more points than there
\* are shape particles.
GlyphPath(text) ==
    CASE text = "Love" -> <<MoveTo(10, 20)>>
      [] text = "Be Mine" -> <<MoveTo(0, 0), LineTo(40, 0), QuadTo(40, 10, 30, 10)>>
      [] OTHER -> <<>>
TextLength(text) == CASE text = "Love" -> 4 [] text = "Be Mine" -> 7 [] OTHER -> 0

\* the three draws of each heart point
HeartDraws == [dx |-> 0, dy |-> 500, dz |-> 999]

\* the point set startShaking generates for the current shape
ShakePoints(shapeName) ==
    IF shapeName = "HEART_SHAPE"
    THEN generateHeartPoints(0, 0, HeartScale, ShakeHeartPoints,
                             [j \in 1 .. ShakeHeartPoints |-> HeartDraws])
    ELSE generateTextPoints(font # "none",
                            IF font = "outlines" THEN GlyphPath(shapeName) ELSE <<>>,
                            TextLength(shapeName), 10000)

\* gsap.killTweensOf(targets): the targets leave every tween that animates a
\* particle property; a tween left without targets is gone
killTweensOf(tws, targets) ==
    LET cut == [k \in 1 .. Len(tws) |->
                   IF tws[k].kind = "bloomMix"
                   THEN [tws[k] EXCEPT !.targets = @ \ targets]
                   ELSE tws[k]]
    IN  SelectSeq(cut, LAMBDA t : t.targets # {})

\* the tween startShaking creates on its proxy object
ProxyTween(targets, t) == [kind |-> "proxy", targets |-> targets, start |-> t, from |-> <<>>]

\* mutant of FormParticles: every shape particle takes point i % length
FormParticlesWrapped(ps, points) ==
    [i \in DOMAIN ps |->
        IF ps[i].role # "shape" \/ points = <<>> THEN ps[i]
        ELSE LET pt == points[(i % Len(points)) + 1]
             IN  [ps[i] EXCEPT !.state = "forming",
                               !.shape = Vec(pt.x, 0 - pt.y, pt.z),
                               !.vel = Zero3]]

\* particles.forEach of startShaking: the store afterwards
FormParticles(ps, points) ==
    [i \in DOMAIN ps |->
        IF ps[i].role # "shape" THEN ps[i]
        ELSE IF i < Len(points)
        THEN [ps[i] EXCEPT !.state = "forming",
                           !.shape = Vec(points[i + 1].x, 0 - points[i + 1].y, points[i + 1].z),
                           !.vel = Zero3]
        ELSE IF ps[i].state # "chaos" /\ ps[i].state # "blooming"
        THEN [ps[i] EXCEPT !.state = "chaos", !.shapeMix = 0]
        ELSE ps[i]]
FormTargets(ps, points) == {i \in DOMAIN ps : ps[i].role = "shape" /\ i < Len(points)}

\* (cos(angle), sin(angle), Math.random() - 0.5) * impulse, the exit blast
Blast(lo, span, rnd) ==
    LET impulse == Ranged(lo, span, rnd.imp)
        k == Twelfths(rnd.ang)
    IN  Vec(TDiv(Cos12(k) * impulse, Unit), TDiv(Sin12(k) * impulse, Unit),
            Centred(rnd.vz, impulse))

\* setChaosMode(initial): every particle that is not blooming
setChaosMode(ps, initial, rnds) ==
    [i \in DOMAIN ps |->
        IF ps[i].state = "blooming" THEN ps[i]
        ELSE IF initial
        THEN [ps[i] EXCEPT !.state = "chaos",
                           !.pos = Spherical(Ranged(600, 1200, rnds[i].radius),
                                             rnds[i].theta, rnds[i].phi)]
        ELSE [ps[i] EXCEPT !.state = "chaos", !.vel = Blast(120, 80, rnds[i])]]

\* shapeParticles.forEach of stopShaking: the seamless explosion
Explode(ps, rnds) ==
    [i \in DOMAIN ps |->
        IF ps[i].state = "forming"
        THEN [ps[i] EXCEPT !.pos = ps[i].shape, !.shapeMix = 0, !.state = "chaos",
                           !.vel = Blast(150, 150, rnds[i])]
        ELSE ps[i]]

\* mutant of StoppedParticles: stopShaking leaves the store as it is
StoppedParticlesUntouched(ps, rnds) == ps

\* stopShaking: explosion, then setChaosMode() over the store
StoppedParticles(ps, rnds) == setChaosMode(Explode(ps, rnds), FALSE, rnds)
NonBlooming(ps) == {i \in DOMAIN ps : ps[i].state # "blooming"}

\* the jitter ShakeController.update adds to a forming particle; the
\* amplitudes 1.5 + beat and 2 + beat are taken at 2 and 3
ShakeJitter(ps, rnds) ==
    [i \in DOMAIN ps |->
        IF ps[i].state = "forming"
        THEN [ps[i] EXCEPT !.pos = VAdd(@, Vec(Centred(rnds[i].jx, 2), Centred(rnds[i].jy, 2),
                                               Centred(rnds[i].jz, 3)))]
        ELSE ps[i]]

\* --------------------------------------------------- BloomController
\* window.innerWidth and window.innerHeight
InnerWidth == 1000
InnerHeight == 800
PoolEnd == Min(PoolStart + BloomHeartPoints, MaxParticles)

VARIABLES
    active,            \* BloomController.active
    initialDistance,   \* distance of the two touches at gesture start
    bloomFactor,       \* hundredths, or NaN
    bloomParticles,    \* the active range: particle indices in slice order
    center3D,          \* anchor of the bloom heart
    celebrated,
    isLocked,
    touchCenter,
    lockCenter,
    isMouseDown,
    lastMouseY,
    scrollTimeout      \* time at which the scroll timer is due; -1: none pending

\* targetShapePoints, generated once in init
targetShapePoints ==
    generateHeartPoints(0, 0, HeartScale, BloomHeartPoints,
                        [j \in 1 .. BloomHeartPoints |-> HeartDraws])

\* Math.hypot of the two touches (whole pixels)
TouchDistance(touches) ==
    Sqrt((touches[2].x - touches[1].x) * (touches[2].x - touches[1].x)
         + (touches[2].y - touches[1].y) * (touches[2].y - touches[1].y))
TouchMid(touches) == [x |-> (touches[1].x + touches[2].x) \div 2,
                      y |-> (touches[1].y + touches[2].y) \div 2]

\* Math.min(1.0, Math.max(0, (currentDistance / initialDistance - 1) * 0.8)):
\* x / 0 is Infinity for x > 0 and NaN for x = 0
PinchFactor(currentDistance, initial) ==
    IF initial = 0
    THEN IF currentDistance = 0 THEN NaN ELSE MixOne
    ELSE Min(MixOne, Max(0, TDiv((currentDistance - initial) * 80, initial)))

\* Math.min(1.0, Math.max(0, this.bloomFactor + delta * 0.001)), delta = deltaY
\* clamped to [-100, 100]
WheelFactor(f, deltaY) ==
    LET delta == Min(100, Max(0 - 100, deltaY))
    IN  MathMin(MixOne, MathMax(0, Add(f, TDiv(delta * MixOne, Unit))))

\* Math.min(1.0, Math.max(0, ((lastMouseY - clientY) * 3) / 200))
DragFactor(lastY, clientY) == Min(MixOne, Max(0, TDiv((lastY - clientY) * 3 * MixOne, 200)))

\* center3D of prepareBloomParticles (aspect >= 1: no mobile offset)
Anchor(centerX, centerY) ==
    Vec(TDiv((2 * centerX - InnerWidth) * 450, InnerWidth),
        TDiv((InnerHeight - 2 * centerY) * 460, InnerHeight), 0)

\* mutant of PoolSlice: the slice runs to the end of the store
PoolSliceOpen(ps) ==
    LET n == Cardinality(DOMAIN ps)
        lo == Min(PoolStart, n)
    IN  [k \in 1 .. (n - lo) |-> lo + k - 1]

\* particles.slice(poolStart, poolEnd)
PoolSlice(ps) ==
    LET n == Cardinality(DOMAIN ps)
        lo == Min(PoolStart, n)
        hi == Min(PoolEnd, n)
    IN  [k \in 1 .. (hi - lo) |-> lo + k - 1]

SeqRange(s) == {s[k] : k \in 1 .. Len(s)}
\* the offset of particle i inside the range (the forEach index)
OffsetOf(range, i) == CHOOSE k \in 1 .. Len(range) : range[k] = i

\* mutant of Prepared: the drift of the range is not stopped
PreparedDrifting(ps, range) ==
    [i \in DOMAIN ps |->
        IF i \in SeqRange(range)
        THEN [ps[i] EXCEPT !.state = "blooming", !.bloom = ps[i].pos, !.bloomMix = 0]
        ELSE ps[i]]

\* bloomParticles.forEach of prepareBloomParticles
Prepared(ps, range) ==
    [i \in DOMAIN ps |->
        IF i \in SeqRange(range)
        THEN [ps[i] EXCEPT !.state = "blooming", !.vel = Zero3,
                           !.bloom = ps[i].pos, !.bloomMix = 0]
        ELSE ps[i]]

\* mutant of Bloomed: the heart is left at the origin, without the anchor
BloomedUnanchored(ps, range, center, f) ==
    [i \in DOMAIN ps |->
        IF i \in SeqRange(range)
        THEN LET target == targetShapePoints[((OffsetOf(range, i) - 1)
                                               % Len(targetShapePoints)) + 1]
             IN  [ps[i] EXCEPT !.bloom = Vec(target.x, 0 - target.y, target.z),
                               !.bloomMix = f]
        ELSE ps[i]]

\* bloomParticles.forEach of updateBloom: targets and mix
Bloomed(ps, range, center, f) ==
    [i \in DOMAIN ps |->
        IF i \in SeqRange(range)
        THEN LET target == targetShapePoints[((OffsetOf(range, i) - 1)
                                               % Len(targetShapePoints)) + 1]
             IN  [ps[i] EXCEPT !.bloom = Vec(center[1] + target.x, center[2] - target.y,
                                             target.z),
                               !.bloomMix = f]
        ELSE ps[i]]

\* the celebration tween: bloomMix of the range to 1.1 and back
CelebrationTween(range, t) ==
    [kind |-> "bloomMix", targets |-> SeqRange(range), start |-> t, from |-> <<>>]

\* mutant of Celebrates: the burst is not edge-triggered
CelebratesWhenFull(f, done) == Gt(f, 99)

\* the celebration branch of updateBloom fires
Celebrates(f, done) == Gt(f, 99) /\ ~done
\* updateBloom: celebrated and isLocked afterwards
CelebratedAfter(f, done) == IF Celebrates(f, done) THEN TRUE
                            ELSE IF Lt(f, 90) THEN FALSE ELSE done
LockedAfter(f, done, locked) == IF Celebrates(f, done) THEN TRUE
                                ELSE IF Lt(f, 90) THEN FALSE ELSE locked

\* mutant of Released: the released particles are spliced out of the store
ReleasedSpliced(ps, range, rnds) == [i \in DOMAIN ps \ SeqRange(range) |-> ps[i]]

\* mutant of Released: the blend is not captured into the base position
ReleasedAtBase(ps, range, rnds) ==
    [i \in DOMAIN ps |->
        IF i \in SeqRange(range)
        THEN [ps[i] EXCEPT !.bloomMix = 0, !.shapeMix = 0, !.state = "chaos",
                           !.vel = Blast(180, 120, rnds[i])]
        ELSE ps[i]]

\* mutant of Released: bloomMix is left for a tween to bring down
ReleasedMixed(ps, range, rnds) ==
    [i \in DOMAIN ps |->
        IF i \in SeqRange(range)
        THEN [ps[i] EXCEPT !.pos = VLerp(VLerp(ps[i].pos, ps[i].shape, ps[i].shapeMix),
                                         ps[i].bloom, ps[i].bloomMix),
                           !.shapeMix = 0, !.state = "chaos",
                           !.vel = Blast(180, 120, rnds[i])]
        ELSE ps[i]]

\* mutant of Released: the released particles keep their state
ReleasedStillBlooming(ps, range, rnds) ==
    [i \in DOMAIN ps |->
        IF i \in SeqRange(range)
        THEN [ps[i] EXCEPT !.pos = VLerp(VLerp(ps[i].pos, ps[i].shape, ps[i].shapeMix),
                                         ps[i].bloom, ps[i].bloomMix),
                           !.bloomMix = 0, !.shapeMix = 0,
                           !.vel = Blast(180, 120, rnds[i])]
        ELSE ps[i]]

\* bloomParticles.forEach of onTouchEnd: the seamless explosion
Released(ps, range, rnds) ==
    [i \in DOMAIN ps |->
        IF i \in SeqRange(range)
        THEN [ps[i] EXCEPT !.pos = VLerp(VLerp(ps[i].pos, ps[i].shape, ps[i].shapeMix),
                                         ps[i].bloom, ps[i].bloomMix),
                           !.bloomMix = 0, !.shapeMix = 0, !.state = "chaos",
                           !.vel = Blast(180, 120, rnds[i])]
        ELSE ps[i]]

\* the jitter BloomController.update adds while active
BloomJitter(ps, range, rnds) ==
    [i \in DOMAIN ps |->
        IF i \in SeqRange(range)
        THEN [ps[i] EXCEPT !.pos = VAdd(@, Vec(Centred(rnds[i].bx, 2),
                                               Centred(rnds[i].by, 2), 0))]
        ELSE ps[i]]

\* ------------------------------------------------------------- gsap
\* ease "power3.out" of the forming tween: proxy.value (hundredths) after
\* elapsed ms of its 1.0 s
ProxyValue(elapsed) ==
    LET left == TDiv((FormDuration - Min(elapsed, FormDuration)) * Unit, FormDuration)
        cube == TDiv(TDiv(left * left, Unit) * left, Unit)
    IN  MixOne - TDiv(MixOne * cube, Unit)

\* ease "power2.out" with yoyo and repeat 1: the eased ratio (thousandths)
\* after elapsed ms; it rises for 0.3 s and returns in the next 0.3 s
CelebrationRatio(elapsed) ==
    LET e == Min(elapsed, 2 * CelebrationDuration)
        left == IF e <= CelebrationDuration THEN CelebrationDuration - e
                ELSE e - CelebrationDuration
    IN  Unit - TDiv(Unit * left * left, CelebrationDuration * CelebrationDuration)

\* the value a bloomMix tween writes: from + (1.1 - from) * ratio
CelebrationValue(from, elapsed) ==
    Add(from, MulDiv(Sub(CelebrationPeak, from), CelebrationRatio(elapsed), Unit))

TweenDone(tw, t) ==
    IF tw.kind = "proxy" THEN t - tw.start >= FormDuration
    ELSE t - tw.start >= 2 * CelebrationDuration

\* a tween after its render at time t: a bloomMix tween records the start
\* value of each target at its first render
TweenRendered(tw, ps) ==
    IF tw.kind = "bloomMix" /\ tw.from = <<>>
    THEN [tw EXCEPT !.from = [i \in tw.targets |-> ps[i].bloomMix]]
    ELSE tw

\* one tween rendered at time t: the store afterwards
TweenWrite(tw, ps, t) ==
    [i \in DOMAIN ps |->
        IF i \notin tw.targets THEN ps[i]
        ELSE IF tw.kind = "proxy"
        THEN IF ps[i].state = "forming"
             THEN [ps[i] EXCEPT !.shapeMix = ProxyValue(t - tw.start)]
             ELSE ps[i]
        ELSE [ps[i] EXCEPT !.bloomMix =
                 CelebrationValue(TweenRendered(tw, ps).from[i], t - tw.start)]]

\* one tick of the gsap ticker over the live tweens, oldest first
RECURSIVE TickParticles(_, _, _)
TickParticles(tws, ps, t) ==
    IF tws = <<>> THEN ps
    ELSE TickParticles(Tail(tws), TweenWrite(Head(tws), ps, t), t)

RECURSIVE TickTweens(_, _, _)
TickTweens(tws, ps, t) ==
    IF tws = <<>> THEN <<>>
    ELSE LET tw == TweenRendered(Head(tws), ps)
             rest == TickTweens(Tail(tws), TweenWrite(Head(tws), ps, t), t)
         IN  IF TweenDone(tw, t) THEN rest ELSE <<tw>> \o rest

\* ------------------------------------------------------------ bounds
\* input events (motion, click, touch, mouse, wheel) a behaviour may hold
MaxInputs == 2
\* the wall clock stops here
MaxTime == 4000

VARIABLES
    inputs,            \* input events so far
    event,             \* the input event last dispatched
    call,              \* a ShapeGenerator call: the method and its arguments
    returned,          \* the points that call returned
    delta              \* what clock.getDelta() returns next, capped at MaxDt (ms)

vars == <<appPhase, particles, positions, pulses, mouse, frames, now, isReady, warmupDue,
          isShaking, lastShakeTime, currentShapeIndex, tweens, active, initialDistance,
          bloomFactor, bloomParticles, center3D, celebrated, isLocked, touchCenter,
          lockCenter, isMouseDown, lastMouseY, scrollTimeout, inputs, event, call, returned, delta,
          font>>
clock == <<now, delta>>
inputVars == <<inputs, event>>
generatorVars == <<call, returned, font>>
storeVars == <<particles, positions, pulses, frames>>
shakeVars == <<isReady, warmupDue, isShaking, lastShakeTime, currentShapeIndex>>
bloomVars == <<active, initialDistance, bloomFactor, bloomParticles, center3D, celebrated,
               isLocked, touchCenter, lockCenter, isMouseDown, lastMouseY, scrollTimeout>>

\* ------------------------------------------------------------ inputs
\* Math.random() results (thousandths), one record per particle and handler
\* call; each field is the draw of one call site
MidDraws ==
    [kick |-> 500, jx |-> 500, jy |-> 500, jz |-> 500, theta |-> 0, phi |-> 500,
     tRadius |-> 375, tTheta |-> 250, tPhi |-> 500, speed |-> 0, imp |-> 0, ang |-> 0,
     vz |-> 500, bx |-> 500, by |-> 500, radius |-> 500, auto |-> 500]
EdgeDraws ==
    [kick |-> 0, jx |-> 0, jy |-> 999, jz |-> 0, theta |-> 500, phi |-> 0,
     tRadius |-> 999, tTheta |-> 0, tPhi |-> 0, speed |-> 999, imp |-> 999, ang |-> 250,
     vz |-> 0, bx |-> 0, by |-> 999, radius |-> 0, auto |-> 999]
RandomDraws == {MidDraws, EdgeDraws}
\* the draws of one handler call, particle by particle
DrawSeqs ==
    { [i \in Idx |-> IF i % 2 = 0 THEN a ELSE b] :
        <<a, b>> \in {<<MidDraws, EdgeDraws>>, <<EdgeDraws, MidDraws>>} }
\* dt = Math.min(0.05, clock.getDelta()), ms
TimeSteps == {500}
Magnitudes == {3, 8, 20}
Touch(x, y) == [x |-> x, y |-> y]
Pinch(d) == <<Touch(500 - d \div 2, 400), Touch(500 + d \div 2, 400)>>
StartTouches == {Pinch(0), Pinch(100), <<Touch(500, 400)>>}
MoveTouches == {Pinch(0), Pinch(150), Pinch(250), <<Touch(480, 400)>>}
MouseYs == {400, 370, 333}
WheelDeltas == {0 - 100, 500}
\* the touches that stay down at a touchend
EndTouches == {<<>>, <<Touch(450, 400)>>}

NoMouse == [x |-> 0 - 999 * Unit, y |-> 0 - 999 * Unit]
\* (clientX / innerWidth) * 2 - 1, -(clientY / innerHeight) * 2 + 1
Pointer(x, y) == [x |-> TDiv((2 * x - InnerWidth) * Unit, InnerWidth),
                  y |-> TDiv((InnerHeight - 2 * y) * Unit, InnerHeight)]

\* -------------------------------------------------------------- Init
\* the state after new App(): no pool yet, no listener registered; c is the
\* ShapeGenerator call under way
Constructed(c) ==
    /\ appPhase = "constructed"
    /\ particles = <<>>
    /\ positions = [i \in Idx |-> Zero3]
    /\ pulses = <<>>
    /\ mouse = NoMouse
    /\ frames = 0
    /\ now = 0
    /\ isReady = FALSE
    /\ warmupDue = 0 - 1
    /\ isShaking = FALSE
    /\ lastShakeTime = 0
    /\ currentShapeIndex = 0
    /\ tweens = <<>>
    /\ active = FALSE
    /\ initialDistance = 0
    /\ bloomFactor = 0
    /\ bloomParticles = <<>>
    /\ center3D = Zero3
    /\ celebrated = FALSE
    /\ isLocked = FALSE
    /\ touchCenter = Touch(InnerWidth \div 2, InnerHeight \div 2)
    /\ lockCenter = Touch(0, 0)
    /\ isMouseDown = FALSE
    /\ lastMouseY = 0
    /\ scrollTimeout = 0 - 1
    /\ inputs = 0
    /\ event = [type |-> "none"]
    /\ call = c
    /\ returned = <<>>
    /\ delta = 0
    /\ font = IF c.method # "none" /\ c.font THEN "outlines" ELSE "none"

Init == Constructed([method |-> "none"])

\* App.init: ParticleSystem.init, ShakeController.init (font loaded,
\* createPool, setChaosMode(true), listeners, warm-up timer),
\* BloomController.init (heart points, listeners), the animation loop
AppInit ==
    /\ appPhase = "constructed"
    /\ \E rnds \in DrawSeqs :
          particles' = setChaosMode(createPool(rnds), TRUE, rnds)
    /\ warmupDue' = now + WarmupDelay
    /\ appPhase' = "running"
    /\ font' = "outlines"
    /\ UNCHANGED <<positions, pulses, mouse, frames, clock, isReady, isShaking, lastShakeTime,
                   currentShapeIndex, tweens, bloomVars, inputVars, call, returned>>

\* App.init when opentype.load fails: shapeGenerator.load() rejects, so
\* ShakeController.init and App.init stop there; no pool, no listener, no
\* warm-up timer and no animation loop
FontLoadFails ==
    /\ appPhase = "constructed"
    /\ appPhase' = "failed"
    /\ UNCHANGED <<storeVars, mouse, clock, shakeVars, tweens, bloomVars, inputVars,
                   generatorVars>>

\* time passes
AdvanceTime ==
    /\ appPhase = "running"
    /\ warmupDue < 0 \/ now < warmupDue
    /\ scrollTimeout < 0 \/ now < scrollTimeout
    /\ \E step \in TimeSteps :
          /\ now + step <= MaxTime
          /\ now' = now + step
          /\ delta' = Min(MaxDt, delta + step)
    /\ UNCHANGED <<appPhase, generatorVars, storeVars, mouse, shakeVars, tweens, bloomVars, inputVars>>

\* setTimeout(() => { this.isReady = true }, 2000)
WarmupTimer ==
    /\ warmupDue >= 0
    /\ now >= warmupDue
    /\ isReady' = TRUE
    /\ warmupDue' = 0 - 1
    /\ UNCHANGED <<appPhase, generatorVars, storeVars, mouse, clock, isShaking, lastShakeTime,
                   currentShapeIndex, tweens, bloomVars, inputVars>>

\* the gsap ticker: every live tween renders at the current time
GsapTick ==
    /\ appPhase = "running"
    /\ tweens # <<>>
    /\ particles' = TickParticles(tweens, particles, now)
    /\ tweens' = TickTweens(tweens, particles, now)
    /\ UNCHANGED <<appPhase, generatorVars, positions, pulses, mouse, frames, clock, shakeVars, bloomVars,
                   inputVars>>

\* ---------------------------------------------------- ShakeController
\* startShaking
startShaking ==
    LET points == ShakePoints(shapes[currentShapeIndex + 1])
        targets == FormTargets(particles, points)
    IN  /\ isShaking' = TRUE
        /\ particles' = FormParticles(particles, points)
        /\ tweens' = Append(killTweensOf(tweens, targets), ProxyTween(targets, now))

\* mutant of handleShake: one threshold, no sustain branch
handleShakeOneThreshold(magnitude) ==
    IF ~isReady
    THEN UNCHANGED <<particles, tweens, isShaking, lastShakeTime>>
    ELSE IF magnitude > ShakeThreshold
    THEN /\ lastShakeTime' = now
         /\ IF ~isShaking THEN startShaking
            ELSE UNCHANGED <<particles, tweens, isShaking>>
    ELSE UNCHANGED <<particles, tweens, isShaking, lastShakeTime>>

\* mutant of handleShake: the warm-up flag is not consulted
handleShakeUnguarded(magnitude) ==
    IF magnitude > ShakeThreshold
    THEN /\ lastShakeTime' = now
         /\ IF ~isShaking THEN startShaking
            ELSE UNCHANGED <<particles, tweens, isShaking>>
    ELSE IF isShaking /\ magnitude > SustainThreshold
    THEN /\ lastShakeTime' = now
         /\ UNCHANGED <<particles, tweens, isShaking>>
    ELSE UNCHANGED <<particles, tweens, isShaking, lastShakeTime>>

\* mutant of handleShake: every sample above the start threshold activates
handleShakeRestarting(magnitude) ==
    IF ~isReady
    THEN UNCHANGED <<particles, tweens, isShaking, lastShakeTime>>
    ELSE IF magnitude > ShakeThreshold
    THEN /\ lastShakeTime' = now
         /\ startShaking
    ELSE IF isShaking /\ magnitude > SustainThreshold
    THEN /\ lastShakeTime' = now
         /\ UNCHANGED <<particles, tweens, isShaking>>
    ELSE UNCHANGED <<particles, tweens, isShaking, lastShakeTime>>

\* handleShake(magnitude)
handleShake(magnitude) ==
    IF ~isReady
    THEN UNCHANGED <<particles, tweens, isShaking, lastShakeTime>>
    ELSE IF magnitude > ShakeThreshold
    THEN /\ lastShakeTime' = now
         /\ IF ~isShaking THEN startShaking
            ELSE UNCHANGED <<particles, tweens, isShaking>>
    ELSE IF isShaking /\ magnitude > SustainThreshold
    THEN /\ lastShakeTime' = now
         /\ UNCHANGED <<particles, tweens, isShaking>>
    ELSE UNCHANGED <<particles, tweens, isShaking, lastShakeTime>>

\* the browser dispatches input event ev to its listeners
Input(ev) ==
    /\ appPhase = "running"
    /\ inputs < MaxInputs
    /\ inputs' = inputs + 1
    /\ event' = ev

\* a devicemotion event whose magnitude onDeviceMotion computed
MotionSample ==
    /\ \E magnitude \in Magnitudes :
          /\ Input([type |-> "devicemotion", magnitude |-> magnitude])
          /\ handleShake(magnitude)
    /\ UNCHANGED <<appPhase, generatorVars, positions, pulses, mouse, frames, clock, isReady, warmupDue,
                   currentShapeIndex, bloomVars>>

\* the click fallback: a forced shake trigger unless shaking
Click ==
    /\ Input([type |-> "click"])
    /\ IF ~isShaking THEN handleShake(20)
       ELSE UNCHANGED <<particles, tweens, isShaking, lastShakeTime>>
    /\ UNCHANGED <<appPhase, generatorVars, positions, pulses, mouse, frames, clock, isReady, warmupDue,
                   currentShapeIndex, bloomVars>>

\* --------------------------------------------------- BloomController
\* updateBloom on store ps with range, anchor, factor f, touch centre tc and
\* live tweens tws
updateBloom(ps, range, center, f, tc, tws) ==
    /\ particles' = Bloomed(ps, range, center, f)
    /\ celebrated' = CelebratedAfter(f, celebrated)
    /\ isLocked' = LockedAfter(f, celebrated, isLocked)
    /\ lockCenter' = IF Celebrates(f, celebrated) THEN tc ELSE lockCenter
    /\ tweens' = IF Celebrates(f, celebrated) /\ range # <<>>
                 THEN Append(tws, CelebrationTween(range, now))
                 ELSE tws

\* prepareBloomParticles(centerX, centerY), which ends in updateBloom
prepareBloomParticles(centerX, centerY, tc) ==
    LET range == PoolSlice(particles)
    IN  /\ center3D' = Anchor(centerX, centerY)
        /\ bloomParticles' = range
        /\ updateBloom(Prepared(particles, range), range, Anchor(centerX, centerY),
                       bloomFactor, tc, killTweensOf(tweens, SeqRange(range)))

\* onTouchEnd(): the release
onTouchEnd ==
    /\ active' = FALSE
    /\ bloomFactor' = 0
    /\ isLocked' = FALSE
    /\ \E rnds \in DrawSeqs :
          particles' = Released(particles, bloomParticles, rnds)
    /\ bloomParticles' = <<>>

\* touchstart: BloomController.onTouchStart, then the App listener
TouchStartOf(touchSets) ==
    /\ \E touches \in touchSets :
          /\ Input([type |-> "touchstart", touches |-> touches])
          /\ IF Len(touches) = 2
             THEN /\ active' = TRUE
                  /\ initialDistance' = TouchDistance(touches)
                  /\ touchCenter' = TouchMid(touches)
                  /\ prepareBloomParticles(TouchMid(touches).x, TouchMid(touches).y,
                                           TouchMid(touches))
                  /\ UNCHANGED <<bloomFactor, mouse>>
             ELSE /\ mouse' = Pointer(touches[1].x, touches[1].y)
                  /\ UNCHANGED <<particles, tweens, active, initialDistance, bloomFactor,
                                 bloomParticles, center3D, celebrated, isLocked, touchCenter,
                                 lockCenter>>
    /\ UNCHANGED <<appPhase, generatorVars, positions, pulses, frames, clock, shakeVars, isMouseDown,
                   lastMouseY, scrollTimeout>>

\* touchmove: BloomController.onTouchMove, then the App listener
TouchMoveOf(touchSets) ==
    /\ \E touches \in touchSets :
          /\ Input([type |-> "touchmove", touches |-> touches])
          /\ IF Len(touches) = 2
             THEN IF active
                  THEN /\ touchCenter' = TouchMid(touches)
                       /\ bloomFactor' = PinchFactor(TouchDistance(touches), initialDistance)
                       /\ updateBloom(particles, bloomParticles, center3D,
                                      PinchFactor(TouchDistance(touches), initialDistance),
                                      TouchMid(touches), tweens)
                       /\ UNCHANGED mouse
                  ELSE UNCHANGED <<particles, tweens, bloomFactor, celebrated, isLocked,
                                   touchCenter, lockCenter, mouse>>
             ELSE /\ mouse' = Pointer(touches[1].x, touches[1].y)
                  /\ UNCHANGED <<particles, tweens, bloomFactor, celebrated, isLocked,
                                 touchCenter, lockCenter>>
    /\ UNCHANGED <<appPhase, generatorVars, positions, pulses, frames, clock, shakeVars, active,
                   initialDistance, bloomParticles, center3D, isMouseDown, lastMouseY,
                   scrollTimeout>>

TouchStart == TouchStartOf(StartTouches)
TouchMove == TouchMoveOf(MoveTouches)

\* touchend: the handler is onTouchEnd itself
TouchEnd ==
    /\ \E touches \in EndTouches : Input([type |-> "touchend", touches |-> touches])
    /\ onTouchEnd
    /\ UNCHANGED <<appPhase, generatorVars, positions, pulses, mouse, frames, clock, shakeVars, tweens,
                   initialDistance, center3D, celebrated, touchCenter, lockCenter,
                   isMouseDown, lastMouseY, scrollTimeout>>

\* mousedown (shift + drag simulates the pinch)
MouseDown ==
    /\ \E shiftKey \in BOOLEAN, clientY \in {400} :
          /\ Input([type |-> "mousedown", shiftKey |-> shiftKey, clientY |-> clientY])
          /\ IF shiftKey
             THEN /\ active' = TRUE
                  /\ initialDistance' = 100
                  /\ isMouseDown' = TRUE
                  /\ lastMouseY' = clientY
                  /\ prepareBloomParticles(500, clientY, touchCenter)
             ELSE UNCHANGED <<particles, tweens, active, initialDistance, isMouseDown,
                              lastMouseY, bloomParticles, center3D, celebrated, isLocked,
                              lockCenter>>
    /\ UNCHANGED <<appPhase, generatorVars, positions, pulses, mouse, frames, clock, shakeVars, bloomFactor,
                   touchCenter, scrollTimeout>>

\* mousemove: BloomController.onMouseMove, then the App listener
MouseMove ==
    /\ \E shiftKey \in BOOLEAN, clientY \in MouseYs :
          /\ Input([type |-> "mousemove", shiftKey |-> shiftKey, clientY |-> clientY])
          /\ IF active /\ isMouseDown /\ shiftKey
             THEN /\ bloomFactor' = DragFactor(lastMouseY, clientY)
                  /\ updateBloom(particles, bloomParticles, center3D,
                                 DragFactor(lastMouseY, clientY), touchCenter, tweens)
             ELSE UNCHANGED <<particles, tweens, bloomFactor, celebrated, isLocked,
                              lockCenter>>
          /\ mouse' = Pointer(500, clientY)
    /\ UNCHANGED <<appPhase, generatorVars, positions, pulses, frames, clock, shakeVars, active,
                   initialDistance, bloomParticles, center3D, touchCenter, isMouseDown,
                   lastMouseY, scrollTimeout>>

\* mouseup
MouseUp ==
    /\ Input([type |-> "mouseup"])
    /\ IF isMouseDown
       THEN /\ isMouseDown' = FALSE
            /\ onTouchEnd
       ELSE UNCHANGED <<particles, active, bloomFactor, isLocked, bloomParticles,
                        isMouseDown>>
    /\ UNCHANGED <<appPhase, generatorVars, positions, pulses, mouse, frames, clock, shakeVars, tweens,
                   initialDistance, center3D, celebrated, touchCenter, lockCenter,
                   lastMouseY, scrollTimeout>>

\* mutant of Rescheduled: a pending timer is left to run
RescheduledOnce(pending, t) == IF pending >= 0 THEN pending ELSE t + ScrollReleaseDelay

\* clearTimeout(this.scrollTimeout), then setTimeout(..., 1000) at time t:
\* when the one scroll timer is due
Rescheduled(pending, t) == t + ScrollReleaseDelay

\* wheel: the scroll simulation of the pinch
Wheel ==
    /\ \E deltaY \in WheelDeltas :
          LET f == WheelFactor(bloomFactor, deltaY)
          IN  /\ Input([type |-> "wheel", deltaY |-> deltaY])
              /\ bloomFactor' = f
              /\ IF ~active
                 THEN LET range == PoolSlice(particles)
                          anchor == Anchor(InnerWidth \div 2, InnerHeight \div 2)
                          \* prepareBloomParticles runs updateBloom with the factor
                          \* of before; the handler then runs it with the new one
                          first == bloomFactor
                          tws == IF Celebrates(first, celebrated) /\ range # <<>>
                                 THEN Append(killTweensOf(tweens, SeqRange(range)),
                                             CelebrationTween(range, now))
                                 ELSE killTweensOf(tweens, SeqRange(range))
                          done == CelebratedAfter(first, celebrated)
                      IN  /\ active' = TRUE
                          /\ center3D' = anchor
                          /\ bloomParticles' = range
                          /\ particles' = Bloomed(Prepared(particles, range), range, anchor, f)
                          /\ celebrated' = CelebratedAfter(f, done)
                          /\ isLocked' = LockedAfter(f, done,
                                                     LockedAfter(first, celebrated, isLocked))
                          /\ lockCenter' = IF Celebrates(first, celebrated)
                                              \/ Celebrates(f, done)
                                           THEN touchCenter ELSE lockCenter
                          /\ tweens' = IF Celebrates(f, done) /\ range # <<>>
                                       THEN Append(tws, CelebrationTween(range, now))
                                       ELSE tws
                 ELSE /\ updateBloom(particles, bloomParticles, center3D, f, touchCenter,
                                     tweens)
                      /\ UNCHANGED <<active, center3D, bloomParticles>>
    /\ scrollTimeout' = Rescheduled(scrollTimeout, now)
    /\ UNCHANGED <<appPhase, generatorVars, positions, pulses, mouse, frames, clock, shakeVars,
                   initialDistance, touchCenter, isMouseDown, lastMouseY>>

\* the scroll timer fires: release unless a mouse drag is held
ScrollTimer ==
    /\ scrollTimeout >= 0
    /\ now >= scrollTimeout
    /\ scrollTimeout' = 0 - 1
    /\ IF ~isMouseDown THEN onTouchEnd
       ELSE UNCHANGED <<particles, active, bloomFactor, isLocked, bloomParticles>>
    /\ UNCHANGED <<appPhase, generatorVars, positions, pulses, mouse, frames, clock, shakeVars, tweens,
                   initialDistance, center3D, celebrated, touchCenter, lockCenter,
                   isMouseDown, lastMouseY, inputVars>>

\* --------------------------------------------------------------- App
\* mutant of NextShapeIndex: the rotation skips a shape
NextShapeIndexSkipping(k) == (k + 2) % Len(shapes)

\* stopShaking: (this.currentShapeIndex + 1) % this.shapes.length
NextShapeIndex(k) == (k + 1) % Len(shapes)

\* mutant of TimedOut: the timeout fires at the limit, not past it
TimedOutAtLimit == isShaking /\ now - lastShakeTime >= SustainTimeout

\* ShakeController.update: the sustain timeout ends the shake
TimedOut == isShaking /\ now - lastShakeTime > SustainTimeout

\* ParticleSystem.update(dt, mouse) on store ps: the store afterwards
UpdatedStore(ps, dt, rnds) == [i \in DOMAIN ps |-> StepParticle(ps[i], pulses, dt, rnds[i])]

\* the pulse list after update: decay, prune, and the hover auto-pulse
UpdatedPulses(dt, auto) ==
    LET mX == TDiv(mouse.x * 450, Unit)
        mY == TDiv(mouse.y * 460, Unit)
    IN  IF mX > 0 - 9000 /\ auto > 700
        THEN addPulse(Decayed(pulses, dt), mX, mY, 80, 150)
        ELSE Decayed(pulses, dt)

\* App.render with clamped delta dt: shakeController.update,
\* bloomController.update, particleSystem.update(dt, mouse).  rnds are the
\* Math.random() draws of the frame, auto the draw of the hover auto-pulse.
RenderStep(dt, rnds, auto) ==
    LET shaken == IF TimedOut THEN StoppedParticles(particles, rnds) ELSE particles
        jittered == ShakeJitter(shaken, rnds)
        bloomed == IF active THEN BloomJitter(jittered, bloomParticles, rnds)
                   ELSE jittered
        stepped == UpdatedStore(bloomed, dt, rnds)
    IN  /\ frames' = frames + 1
        /\ particles' = stepped
        /\ positions' = [i \in Idx |-> RenderPos(stepped[i])]
        /\ pulses' = UpdatedPulses(dt, auto)
        /\ tweens' = IF TimedOut
                     THEN killTweensOf(tweens, NonBlooming(Explode(particles, rnds)))
                     ELSE tweens
        /\ isShaking' = IF TimedOut THEN FALSE ELSE isShaking
        /\ currentShapeIndex' = IF TimedOut THEN NextShapeIndex(currentShapeIndex)
                                ELSE currentShapeIndex

\* one animation frame: dt = Math.min(0.05, clock.getDelta())
Render ==
    /\ appPhase = "running"
    /\ frames < MaxFrames
    /\ delta > 0
    /\ delta' = 0
    /\ \E rnds \in DrawSeqs : RenderStep(Min(MaxDt, delta), rnds, rnds[0].auto)
    /\ UNCHANGED <<appPhase, generatorVars, mouse, now, isReady, warmupDue, lastShakeTime,
                   bloomVars, inputVars>>

Next ==
    \/ AppInit
    \/ FontLoadFails
    \/ AdvanceTime
    \/ WarmupTimer
    \/ GsapTick
    \/ MotionSample
    \/ Click
    \/ TouchStart
    \/ TouchMove
    \/ TouchEnd
    \/ MouseDown
    \/ MouseMove
    \/ MouseUp
    \/ Wheel
    \/ ScrollTimer
    \/ Render

Spec == Init /\ [][Next]_vars

\* ------------------------------------------- the application, running
\* frames of a store run
MaxStoreFrames == 3
\* frames of a pulse run, and pulses alive at once in it
MaxPulseFrames == 18
MaxLivePulses == 2
\* points one generator call may ask for
MaxPoints == 6

\* an application that has been running past its warm-up, no shake going
\* on: font loaded, store pool, pointer at pointer, frames arriving every
\* d ms
RunningApp(loaded, pool, pointer, d) ==
    /\ appPhase = "running"
    /\ font = loaded
    /\ particles = pool
    /\ positions = [i \in Idx |-> RenderPos(pool[i])]
    /\ pulses = <<>>
    /\ mouse = pointer
    /\ frames = 0
    /\ now = WarmupDelay
    /\ isReady = TRUE
    /\ warmupDue = 0 - 1
    /\ isShaking = FALSE
    /\ lastShakeTime = 0
    /\ currentShapeIndex = 0
    /\ tweens = <<>>
    /\ inputs = 0
    /\ call = [method |-> "none"]
    /\ returned = <<>>
    /\ delta = d

\* the bloom controller as its constructor leaves it
NoGesture ==
    /\ active = FALSE
    /\ initialDistance = 0
    /\ bloomFactor = 0
    /\ bloomParticles = <<>>
    /\ center3D = Zero3
    /\ celebrated = FALSE
    /\ isLocked = FALSE
    /\ touchCenter = Touch(InnerWidth \div 2, InnerHeight \div 2)
    /\ lockCenter = Touch(0, 0)
    /\ isMouseDown = FALSE
    /\ lastMouseY = 0
    /\ scrollTimeout = 0 - 1
    /\ event = [type |-> "none"]

\* that application with nothing in progress
RunningWith(loaded, pool, pointer, d) == RunningApp(loaded, pool, pointer, d) /\ NoGesture

\* the same with the catalogue font loaded
Running(pool, pointer, d) == RunningWith("outlines", pool, pointer, d)

\* the pool of createPool and setChaosMode(true) under draws rnds
FreshPool(rnds) == setChaosMode(createPool(rnds), TRUE, rnds)
\* that pool after a long drift: the stars of edge have reached the rim of
\* the domain, the others the spawn shell, all still moving outwards
DriftedPool(rnds, edge) ==
    [i \in Idx |->
        LET radius == IF i \in edge THEN DomainRadius - 1 ELSE SpawnDist
            at == Spherical(radius, rnds[i].theta, rnds[i].phi)
        IN  [FreshPool(rnds)[i] EXCEPT
                !.pos = at,
                !.vel = Vec(TDiv(at[1] * 100, radius), TDiv(at[2] * 100, radius),
                            TDiv(at[3] * 100, radius))]]
CalmDraws == [i \in Idx |-> MidDraws]
\* frame intervals (ms): 16 is the display rate, MaxDt the clamp
FrameDeltas == {16, MaxDt}
PulseDeltas == {40, MaxDt}

\* ------------------------------------------------------- SpecStore
\* ParticleSystem.update at the rim of the domain
InitStore ==
    \E rnds \in DrawSeqs, edge \in SUBSET Idx, d \in FrameDeltas :
        Running(DriftedPool(rnds, edge), NoMouse, d)

\* a frame arrives delta ms after the last one
StoreFrame ==
    /\ appPhase = "running"
    /\ frames < MaxStoreFrames
    /\ now' = now + delta
    /\ \E rnds \in DrawSeqs : RenderStep(delta, rnds, rnds[0].auto)
    /\ UNCHANGED <<appPhase, generatorVars, mouse, delta, isReady, warmupDue, lastShakeTime,
                   bloomVars, inputVars>>

SpecStore == InitStore /\ [][StoreFrame]_vars

\* ------------------------------------------------------- SpecPulse
\* the shockwave pulses of a hovering pointer
InitPulse == \E d \in PulseDeltas : Running(FreshPool(CalmDraws), Pointer(500, 370), d)

\* a frame arrives delta ms after the last one; the hover auto-pulse draw
\* exceeds 0.7 only while fewer than MaxLivePulses pulses are alive
PulseFrame ==
    /\ appPhase = "running"
    /\ frames < MaxPulseFrames
    /\ now' = now + delta
    /\ \E auto \in {0, 999} :
          /\ auto > 700 => Len(pulses) < MaxLivePulses
          /\ RenderStep(delta, CalmDraws, auto)
    /\ UNCHANGED <<appPhase, generatorVars, mouse, delta, isReady, warmupDue, lastShakeTime,
                   bloomVars, inputVars>>

SpecPulse == InitPulse /\ [][PulseFrame]_vars

\* ------------------------------------------------------- SpecPinch
\* the two-finger gesture
PinchDistances == {0, 50, 100, 120, 150, 200, 226, 250}
PinchTouches == {Pinch(d) : d \in PinchDistances}
InitPinch == Running(FreshPool(CalmDraws), NoMouse, 0)
PinchStart == TouchStartOf(PinchTouches)
PinchMove == TouchMoveOf(PinchTouches)
PinchEnd == TouchEnd
PinchNext == PinchStart \/ PinchMove \/ PinchEnd
SpecPinch == InitPinch /\ [][PinchNext]_vars

\* ------------------------------------------------------ SpecShapes
\* the two ShapeGenerator modes, called once with arguments from small sets
HeartSizes == {100, 150, HeartScale}
\* the draws of heart point j: none off centre, or alternating corners
JitterNames == {"centre", "corners"}
JitterOf(name, j) ==
    IF name = "centre" THEN [dx |-> 500, dy |-> 500, dz |-> 500]
    ELSE IF j % 2 = 0 THEN [dx |-> 0, dy |-> 999, dz |-> 0]
    ELSE [dx |-> 999, dy |-> 0, dz |-> 999]
HeartCalls ==
    { [method |-> "generateHeartPoints", size |-> size, count |-> n, jitter |-> name,
       text |-> "", font |-> TRUE, pending |-> TRUE] :
        size \in HeartSizes, n \in 0 .. MaxPoints, name \in JitterNames }
TextCalls ==
    { [method |-> "generateTextPoints", size |-> 0, count |-> n, jitter |-> "centre",
       text |-> text, font |-> loaded, pending |-> TRUE] :
        n \in 0 .. MaxPoints, text \in {"Love", "Be Mine"}, loaded \in BOOLEAN }

InitShapes == \E c \in HeartCalls \cup TextCalls : Constructed(c)

\* generateHeartPoints(0, 0, size, count) returns
GenerateHeart ==
    /\ call.method = "generateHeartPoints"
    /\ call.pending
    /\ returned' = generateHeartPoints(0, 0, call.size, call.count,
                                       [j \in 1 .. call.count |-> JitterOf(call.jitter, j)])
    /\ call' = [call EXCEPT !.pending = FALSE]
    /\ UNCHANGED <<appPhase, storeVars, mouse, clock, shakeVars, tweens, bloomVars, inputVars,
                   font>>

\* generateTextPoints(text, 0, 0, fontSize, count) returns
GenerateText ==
    /\ call.method = "generateTextPoints"
    /\ call.pending
    /\ returned' = generateTextPoints(call.font, GlyphPath(call.text), TextLength(call.text),
                                      call.count)
    /\ call' = [call EXCEPT !.pending = FALSE]
    /\ UNCHANGED <<appPhase, storeVars, mouse, clock, shakeVars, tweens, bloomVars, inputVars,
                   font>>

ShapesNext == GenerateHeart \/ GenerateText
SpecShapes == InitShapes /\ [][ShapesNext]_vars

\* ------------------------------------------------------------ claims
\* C1: in every reachable state every particle's shapeMix and bloomMix lie
\* in [0, 1] (hundredths: [0, MixOne]), the shape-forming easing and the
\* full-bloom celebration included.  A mix that is not a number is left to
\* the degenerate-gesture claim; this is the statement for finite mixes.
C1_MixesInUnitRange ==
    \A i \in DOMAIN particles :
        /\ IsNum(particles[i].shapeMix) =>
              particles[i].shapeMix >= 0 /\ particles[i].shapeMix <= MixOne
        /\ IsNum(particles[i].bloomMix) =>
              particles[i].bloomMix >= 0 /\ particles[i].bloomMix <= MixOne

\* a * (1 - mix) + b * mix in the model's arithmetic, written out
BlendOf(a, b, mix) ==
    IF a = NaN \/ b = NaN \/ mix = NaN THEN NaN
    ELSE TDiv(a * (MixOne - mix), MixOne) + TDiv(b * mix, MixOne)
\* the two-stage blend of one particle record: base to shape target by
\* shapeMix, then to bloom target by bloomMix
TwoStageBlend(p) ==
    [k \in 1 .. 3 |-> BlendOf(BlendOf(p.pos[k], p.shape[k], p.shapeMix), p.bloom[k],
                              p.bloomMix)]

\* C2: after each ParticleSystem.update the render position written for
\* particle i is lerp(lerp(position, shapeTarget, shapeMix), bloomTarget,
\* bloomMix) on the fields the particle has at the end of the update; it is
\* the base position exactly when both mixes are 0, the shape target exactly
\* when shapeMix = 1 and bloomMix = 0, the bloom target exactly when
\* bloomMix = 1.
C2_RenderIsTwoStageBlend ==
    [][frames' # frames =>
          \A i \in Idx :
              LET p == particles'[i]
              IN  /\ positions'[i] = TwoStageBlend(p)
                  /\ (p.shapeMix = 0 /\ p.bloomMix = 0 /\ VIsNum(p.shape) /\ VIsNum(p.bloom))
                        => positions'[i] = p.pos
                  /\ (p.shapeMix = MixOne /\ p.bloomMix = 0 /\ VIsNum(p.pos)
                      /\ VIsNum(p.bloom)) => positions'[i] = p.shape
                  /\ (p.bloomMix = MixOne /\ VIsNum(p.pos) /\ VIsNum(p.shape))
                        => positions'[i] = p.bloom]_vars

\* C2 witness: a frame has been rendered in which a particle is part-way
\* into the bloom layer, and one in which a particle sits on its shape
\* target with shapeMix = 1
C2_Witness ==
    /\ frames > 0
    /\ delta = 0
    /\ \E i \in Idx :
          /\ particles[i].bloomMix > 0 /\ particles[i].bloomMix < MixOne
          /\ positions[i] = TwoStageBlend(particles[i])
          /\ positions[i] # particles[i].pos
    /\ \E i \in Idx :
          /\ particles[i].shapeMix = MixOne /\ particles[i].bloomMix = 0
          /\ positions[i] = particles[i].shape
          /\ positions[i] # particles[i].pos

\* C3: once createPool has run the store holds maxParticles records, and
\* the number never changes under ticks, shake activations and explosions,
\* bloom gesture starts and releases.
C3_PoolSizeConstant ==
    appPhase = "running" =>
        /\ Cardinality(DOMAIN particles) = MaxParticles
        /\ DOMAIN particles = Idx

\* C3 witness: a shape has been formed and exploded, a bloom range was
\* selected by the wheel and released by its timer, and frames were drawn
C3_Witness ==
    /\ appPhase = "running"
    /\ currentShapeIndex = 1
    /\ ~isShaking
    /\ inputs = MaxInputs
    /\ event.type = "wheel"
    /\ scrollTimeout < 0
    /\ ~active
    /\ frames > 0
    /\ Cardinality(DOMAIN particles) = MaxParticles

\* the step dispatches a devicemotion event of magnitude above m
MotionAbove(m) ==
    inputs' # inputs /\ event'.type = "devicemotion" /\ event'.magnitude > m

\* C4: once the warm-up has elapsed, a motion sample of magnitude above the
\* start threshold 8 received while the controller is idle puts it into
\* Shaking; the sustain clock restarts exactly on samples above the sustain
\* threshold 3 (and on the forced click trigger); and when that clock has
\* run for longer than 1500 ms, the next ShakeController.update leaves
\* Shaking through stopShaking: the shape index advances and every forming
\* particle is thrown back into chaos.  Until then update leaves it Shaking.
C4_ShakeLifecycle ==
    [][/\ (MotionAbove(8) /\ isReady /\ ~isShaking) =>
              (isShaking' /\ lastShakeTime' = now)
       /\ (MotionAbove(3) /\ isReady /\ isShaking) => (isShaking' /\ lastShakeTime' = now)
       /\ lastShakeTime' # lastShakeTime =>
              (inputs' # inputs /\ (MotionAbove(3) \/ event'.type = "click"))
       /\ (frames' # frames /\ isShaking /\ now - lastShakeTime > 1500) =>
              /\ ~isShaking'
              /\ currentShapeIndex' = (currentShapeIndex + 1) % Len(shapes)
              /\ \A i \in Idx :
                    particles[i].state = "forming" =>
                        particles'[i].state = "chaos" /\ particles'[i].shapeMix = 0
       /\ (frames' # frames /\ isShaking /\ now - lastShakeTime <= 1500) =>
              (isShaking' /\ currentShapeIndex' = currentShapeIndex)]_vars

\* C4 witness: a sample of magnitude 20 started a shake after the warm-up,
\* nothing sustained it, and an update has ended it by the explosion
C4_Witness ==
    /\ isReady
    /\ inputs = 1
    /\ event.type = "devicemotion"
    /\ event.magnitude = 20
    /\ now - lastShakeTime > 1500
    /\ lastShakeTime >= WarmupDelay
    /\ ~isShaking
    /\ currentShapeIndex = 1
    /\ frames > 0
    /\ \A i \in Idx : particles[i].state = "chaos"

\* C10: on bloom release every particle of the active range gets as base
\* position its render position of immediately before (the two-stage blend),
\* shapeMix = 0, bloomMix = 0, state chaos and a new non-zero velocity, so
\* that its render position is the same immediately before and after; the
\* range becomes empty, the controller inactive and bloomFactor 0.
C10_ReleaseIsSeamless ==
    [][((active /\ ~active') \/ (bloomParticles # <<>> /\ bloomParticles' = <<>>)) =>
          /\ ~active'
          /\ bloomFactor' = 0
          /\ bloomParticles' = <<>>
          /\ \A k \in 1 .. Len(bloomParticles) :
                LET p == particles[bloomParticles[k]]
                    q == particles'[bloomParticles[k]]
                IN  /\ q.pos = TwoStageBlend(p)
                    /\ q.shapeMix = 0
                    /\ q.bloomMix = 0
                    /\ q.state = "chaos"
                    /\ q.vel # Zero3
                    /\ q.vel # p.vel
                    /\ TwoStageBlend(q) = TwoStageBlend(p)]_vars

\* C10 witness: a range pulled a tenth of the way into the heart by the
\* wheel has been released: it is back in chaos with a velocity, at a base
\* position that is not where the pool had left it
C10_Witness ==
    /\ inputs = 1
    /\ event.type = "wheel"
    /\ event.deltaY > 0
    /\ scrollTimeout < 0
    /\ ~active
    /\ bloomFactor = 0
    /\ bloomParticles = <<>>
    /\ \A i \in SeqRange(PoolSlice(particles)) :
          /\ particles[i].state = "chaos"
          /\ particles[i].vel # Zero3
          /\ particles[i].bloomMix = 0
          /\ particles[i].pos # particles[i].bloom

\* min(1, max(0, (currentDistance / initialDistance - 1) * 0.8)) as the
\* claim reads it, in hundredths: 0 up to the initial distance, then rising
\* with the ratio to the cap of 1
ClampedRatio(currentDistance, initial) ==
    IF currentDistance <= initial THEN 0
    ELSE IF initial = 0 THEN MixOne
    ELSE Min(MixOne, TDiv((currentDistance - initial) * 80, initial))

\* C5: on every two-touch move of an active pinch bloomFactor becomes
\* min(1, max(0, (currentDistance / initialDistance - 1) * 0.8)) for the
\* distance captured at gesture start (100 and 150 give 0.4); it is 0
\* whenever currentDistance <= initialDistance.
C5_PinchFactor ==
    [][(inputs' # inputs /\ event'.type = "touchmove" /\ Len(event'.touches) = 2 /\ active) =>
          bloomFactor' = ClampedRatio(TouchDistance(event'.touches), initialDistance)]_vars

\* the finite part of C5: the same for gestures that began with the
\* fingers apart
C5_PinchFactorFromApart ==
    [][(inputs' # inputs /\ event'.type = "touchmove" /\ Len(event'.touches) = 2 /\ active
        /\ initialDistance > 0) =>
          /\ bloomFactor' = ClampedRatio(TouchDistance(event'.touches), initialDistance)
          /\ (initialDistance = 100 /\ TouchDistance(event'.touches) = 150) =>
                bloomFactor' = 40]_vars

\* C8: for generateHeartPoints(0, 0, size, count) the bounding box of the
\* returned points is centred on (0, 0) within tolerance.  The tolerance
\* granted is 20 on each axis, half the thickness of the random spread, so
\* that no draw of the spread can account for an offset.
C8_HeartCentred ==
    (call.method = "generateHeartPoints" /\ ~call.pending /\ Len(returned) > 0) =>
        /\ Abs(SeqMin(returned, PX) + SeqMax(returned, PX)) <= 2 * 20
        /\ Abs(SeqMin(returned, PY) + SeqMax(returned, PY)) <= 2 * 20

\* the points generateTextPoints samples before it cuts and centres them
SampledOf(c) == SamplePath(GlyphPath(c.text), 0, 0, IF TextLength(c.text) > 5 THEN 10 ELSE 6)

\* C9: generateHeartPoints(cx, cy, size, n) returns exactly n points for
\* every n >= 0; generateTextPoints never returns more than maxPoints
\* points, and what it returns are the first maxPoints sampled points in
\* path order (moved as one by the centring offset) when the outline
\* yields more.
C9_BoundedLength ==
    /\ (call.method = "generateHeartPoints" /\ ~call.pending) => Len(returned) = call.count
    /\ (call.method = "generateTextPoints" /\ ~call.pending) =>
          /\ Len(returned) <= call.count
          /\ call.font => Len(returned) = Min(call.count, Len(SampledOf(call)))
          /\ ~call.font => returned = <<>>
          /\ \A i \in 1 .. Len(returned) :
                /\ returned[i].x - returned[1].x = SampledOf(call)[i].x - SampledOf(call)[1].x
                /\ returned[i].y - returned[1].y = SampledOf(call)[i].y - SampledOf(call)[1].y

\* C9 witness: a text outline that samples to more points than asked for
\* has been cut to the cap
C9_Witness ==
    /\ call.method = "generateTextPoints"
    /\ ~call.pending
    /\ call.count = MaxPoints
    /\ Len(SampledOf(call)) > call.count
    /\ Len(returned) = call.count

\* particle p of the store after the pulses, the drift, the integration and
\* the rotation of an update with draws rnd: as the recycling test finds it
Integrated(p, rnd) ==
    Rotate(Integrate(ChaosDrift(Pulsed(p, pulses, delta, rnd.kick), rnd), delta), delta)
\* u and v point the same way, up to the rounding of v's components
Along(v, u) ==
    /\ Dot(v, u) > 0
    /\ Abs(v[1] * u[2] - v[2] * u[1]) <= Abs(u[1]) + Abs(u[2])
    /\ Abs(v[2] * u[3] - v[3] * u[2]) <= Abs(u[2]) + Abs(u[3])
    /\ Abs(v[3] * u[1] - v[1] * u[3]) <= Abs(u[3]) + Abs(u[1])
\* the length of u is within two units of r
OfLength(u, r) == NormSq(u) >= (r - 2) * (r - 2) /\ NormSq(u) <= (r + 2) * (r + 2)

\* C6: in ParticleSystem.update a particle whose squared distance from the
\* origin exceeds 4000^2 after integration is, within that update, moved to
\* a point at the spawn distance 2500 from the origin and given a velocity
\* that points from its new position toward a target whose distance from
\* the origin lies in [1500, 2500], with speed in [120, 270]; a particle
\* not beyond the limit is not repositioned.  (Lengths hold to the two
\* units of the model's rounding.)
C6_Recycle ==
    [][frames' # frames =>
          \E rnds \in DrawSeqs :
              \A i \in Idx :
                  LET q == Integrated(particles[i], rnds[i])
                      p == particles'[i]
                  IN  IF NormSq(q.pos) > 4000 * 4000
                      THEN /\ OfLength(p.pos, 2500)
                           /\ NormSq(p.vel) >= (120 - 2) * (120 - 2)
                           /\ NormSq(p.vel) <= 270 * 270
                           /\ \E r \in RandomDraws :
                                 LET target == RecycleTarget(r)
                                 IN  /\ NormSq(target) >= (1500 - 2) * (1500 - 2)
                                     /\ NormSq(target) <= 2500 * 2500
                                     /\ Along(p.vel, VSub(target, p.pos))
                      ELSE p.pos = q.pos /\ p.vel = q.vel]_vars

\* C6 witness: after an update one star is on the spawn shell, inbound,
\* while another that stayed inside the domain is past the spawn shell
C6_Witness ==
    /\ frames > 0
    /\ \E i, j \in Idx :
          /\ OfLength(particles[i].pos, 2500)
          /\ Dot(particles[i].vel, particles[i].pos) < 0
          /\ NormSq(particles[i].vel) >= (120 - 2) * (120 - 2)
          /\ NormSq(particles[j].pos) > (2500 + 2) * (2500 + 2)
          /\ NormSq(particles[j].pos) <= 4000 * 4000

\* what one update takes from a pulse's life: 1.5 * dt, in thousandths
DecayOf(dt) == (3 * dt) \div 2
\* the pulses of ps that outlive an update of dt, aged by it
Survivors(ps, dt) ==
    SelectSeq([k \in 1 .. Len(ps) |-> [ps[k] EXCEPT !.life = @ - DecayOf(dt)]],
              LAMBDA q : q.life > 0)

\* C7: a pulse added with life 1.0 loses 1.5 * dt of life on every update
\* and leaves the list in the first update at whose end its life is <= 0;
\* for a fixed dt every pulse that is not evicted survives the same number
\* of updates (its life tells its age: 1 - life is a whole number of
\* decays, fewer than it takes to use up a life); no pulse with life <= 0
\* is in the list when an update starts.
C7_PulseDecay ==
    /\ [][frames' # frames =>
             LET kept == Survivors(pulses, delta)
             IN  \/ pulses' = kept
                 \/ /\ Len(pulses') = Len(kept) + 1
                    /\ SubSeq(pulses', 1, Len(kept)) = kept
                    /\ pulses'[Len(pulses')].life = Unit]_vars
    /\ [](\A k \in 1 .. Len(pulses) :
             /\ pulses[k].life > 0
             /\ pulses[k].life <= Unit
             /\ (Unit - pulses[k].life) % DecayOf(delta) = 0
             /\ (Unit - pulses[k].life) \div DecayOf(delta)
                    < (Unit + DecayOf(delta) - 1) \div DecayOf(delta))

\* C7 witness: a pulse is in its last update (the decay ahead is at least
\* the life it has left) while a younger one is still expanding
C7_Witness ==
    /\ Len(pulses) = 2
    /\ pulses[1].life <= DecayOf(delta)
    /\ pulses[2].life > DecayOf(delta)
    /\ frames >= 13

\* C11: when Shaking ends by timeout, every forming particle gets as base
\* position its blended visual position lerp(lerp(position, shapeTarget,
\* shapeMix), bloomTarget, bloomMix), shapeMix 0 and state chaos, whatever
\* the two mixes are at that moment.  Stated of the store stopShaking leaves
\* in the update that finds the timeout, for every draw of the blast.
C11_StopCapturesBlend ==
    [][(frames' # frames /\ TimedOut) =>
          \A rnds \in DrawSeqs :
              \A i \in Idx :
                  particles[i].state = "forming" =>
                      LET q == StoppedParticles(particles, rnds)[i]
                      IN  /\ q.pos = TwoStageBlend(particles[i])
                          /\ q.shapeMix = 0
                          /\ q.state = "chaos"]_vars

\* C12: in a gesture whose initialDistance is 0 the ratio is computed with a
\* guarded denominator: bloomFactor stays a finite number in [0, 1] and no
\* NaN reaches a bloomMix, a bloom target, a base position or a render
\* position.
C12_GuardedRatio ==
    initialDistance = 0 =>
        /\ IsNum(bloomFactor)
        /\ bloomFactor >= 0
        /\ bloomFactor <= MixOne
        /\ \A i \in DOMAIN particles :
              /\ IsNum(particles[i].bloomMix)
              /\ VIsNum(particles[i].bloom)
              /\ VIsNum(particles[i].pos)
        /\ \A i \in Idx : VIsNum(positions[i])

\* -------------------------------------------------------- SpecForm
\* shake activations over a running application whose font either has the
\* catalogue's outlines or none of them, and generateTextPoints called on a
\* generator that has no font
FormFonts == {"outlines", "blank"}
InitForm ==
    \/ \E loaded \in FormFonts : RunningWith(loaded, FreshPool(CalmDraws), NoMouse, 0)
    \/ \E c \in TextCalls : ~c.font /\ Constructed(c)
FormNext ==
    \/ GenerateText
    \/ AdvanceTime
    \/ GsapTick
    \/ MotionSample
    \/ Click
    \/ TouchStart
    \/ TouchMove
    \/ Render
SpecForm == InitForm /\ [][FormNext]_vars

\* C13: with no font loaded generateTextPoints returns the empty sequence;
\* and a shake activation whose generated point set is empty puts no
\* particle into forming and changes no particle's state, shape target or
\* shapeMix: every particle stays in the regime it was in.
C13_EmptyShapeSkipsMorph ==
    /\ []((call.method = "generateTextPoints" /\ ~call.pending /\ ~call.font) =>
             returned = <<>>)
    /\ [][(~isShaking /\ isShaking' /\ ShakePoints(shapes[currentShapeIndex + 1]) = <<>>) =>
             \A i \in Idx :
                 /\ particles'[i].state = particles[i].state
                 /\ particles'[i].state # "forming"
                 /\ particles'[i].shape = particles[i].shape
                 /\ particles'[i].shapeMix = particles[i].shapeMix]_vars

\* C13 witness: a click has activated a shake on the blank font's "Love"
\* while a pinch holds a bloom range: the controller is shaking, nothing is
\* forming, the range is still blooming
C13_Witness ==
    /\ font = "blank"
    /\ isShaking
    /\ currentShapeIndex = 0
    /\ event.type = "click"
    /\ lastShakeTime = now
    /\ \E i \in Idx : particles[i].state = "blooming"
    /\ \A i \in Idx : particles[i].state # "forming"

\* ----------------------------------------------------- SpecGesture
\* bloom gestures met under way: a two-finger pinch opened from 100 px to
\* 150 px (bloomFactor 0.4), or a wheel gesture one notch in (bloomFactor
\* 0.1) whose release timer is pending
GestureKinds == {"pinch", "wheel"}
HeldFactor(kind) == IF kind = "pinch" THEN 40 ELSE 10
\* the store as prepareBloomParticles and updateBloom leave it
HeldPool(kind) ==
    LET pool == FreshPool(CalmDraws)
        range == PoolSlice(pool)
    IN  Bloomed(Prepared(pool, range), range, Anchor(InnerWidth \div 2, InnerHeight \div 2),
                HeldFactor(kind))
InitGesture ==
    \E kind \in GestureKinds :
        /\ RunningApp("outlines", HeldPool(kind), NoMouse, 0)
        /\ active = TRUE
        /\ initialDistance = IF kind = "pinch" THEN 100 ELSE 0
        /\ bloomFactor = HeldFactor(kind)
        /\ bloomParticles = PoolSlice(FreshPool(CalmDraws))
        /\ center3D = Anchor(InnerWidth \div 2, InnerHeight \div 2)
        /\ celebrated = FALSE
        /\ isLocked = FALSE
        /\ touchCenter = Touch(InnerWidth \div 2, InnerHeight \div 2)
        /\ lockCenter = Touch(0, 0)
        /\ isMouseDown = FALSE
        /\ lastMouseY = 0
        /\ scrollTimeout = IF kind = "pinch" THEN 0 - 1 ELSE now + ScrollReleaseDelay
        /\ event = IF kind = "pinch" THEN [type |-> "touchmove", touches |-> Pinch(150)]
                   ELSE [type |-> "wheel", deltaY |-> 500]
GestureNext ==
    \/ AdvanceTime
    \/ GsapTick
    \/ TouchStart
    \/ TouchMove
    \/ TouchEnd
    \/ MouseDown
    \/ MouseMove
    \/ MouseUp
    \/ Wheel
    \/ ScrollTimer
    \/ Render
SpecGesture == InitGesture /\ [][GestureNext]_vars

\* C14: when one finger of an active two-finger pinch is lifted (a touchend
\* that leaves one touch down), the controller runs the release with the
\* postconditions of any release: the range's particles in chaos with both
\* mixes 0, the range empty, the controller inactive, bloomFactor 0; and a
\* touchmove that carries a touch count other than 2 changes neither
\* bloomFactor nor any particle.
C14_LiftedFingerReleases ==
    [][/\ (inputs' # inputs /\ event'.type = "touchend" /\ Len(event'.touches) = 1
           /\ active /\ event.type \in {"touchstart", "touchmove"}) =>
              /\ ~active'
              /\ bloomFactor' = 0
              /\ bloomParticles' = <<>>
              /\ \A k \in 1 .. Len(bloomParticles) :
                    LET q == particles'[bloomParticles[k]]
                    IN  q.state = "chaos" /\ q.shapeMix = 0 /\ q.bloomMix = 0
       /\ (inputs' # inputs /\ event'.type = "touchmove" /\ Len(event'.touches) # 2) =>
              (bloomFactor' = bloomFactor /\ particles' = particles)]_vars

\* C14 witness: one finger of the pinch held at 0.4 has been lifted: the
\* controller is inactive and the range, which was blooming, is in chaos
\* with a velocity and no mix
C14_Witness ==
    /\ inputs = 1
    /\ event.type = "touchend"
    /\ Len(event.touches) = 1
    /\ initialDistance = 100
    /\ ~active
    /\ bloomFactor = 0
    /\ bloomParticles = <<>>
    /\ \A i \in SeqRange(PoolSlice(particles)) :
          /\ HeldPool("pinch")[i].state = "blooming"
          /\ particles[i].state = "chaos"
          /\ particles[i].bloomMix = 0
          /\ particles[i].vel # Zero3

\* the step is the scroll-release timer firing
ScrollTimerFires == scrollTimeout >= 0 /\ scrollTimeout' < 0 /\ inputs' = inputs

\* C15: a scroll-release timer that fires after another bloom gesture (a
\* two-finger pinch or a shift-drag) has started since the wheel event that
\* scheduled it is a no-op: it neither releases that gesture nor changes
\* bloomFactor, the active range or any particle.
C15_StaleScrollTimerIsNoOp ==
    [][(ScrollTimerFires /\ active
        /\ \/ event.type \in {"touchstart", "touchmove"} /\ Len(event.touches) = 2
           \/ event.type \in {"mousedown", "mousemove"} /\ isMouseDown) =>
          /\ active' = active
          /\ bloomFactor' = bloomFactor
          /\ bloomParticles' = bloomParticles
          /\ particles' = particles]_vars

\* the part of C15 that the isMouseDown test covers: the timer firing
\* during a held shift-drag changes nothing
C15_StaleScrollTimerDuringDrag ==
    [][(ScrollTimerFires /\ active /\ isMouseDown) =>
          /\ active' = active
          /\ bloomFactor' = bloomFactor
          /\ bloomParticles' = bloomParticles
          /\ particles' = particles]_vars

\* C16: every wheel event replaces the pending scroll-release timer by one
\* due 1000 ms later (one timer, so at most one pending); the timer
\* releases only once 1000 ms have passed since the last wheel event, and
\* then only if no mouse-button gesture is held; and a wheel-driven bloom is
\* released only then.
C16_WheelDebounce ==
    [][/\ (inputs' # inputs /\ event'.type = "wheel") =>
              (scrollTimeout' = now + 1000 /\ active')
       /\ scrollTimeout' # scrollTimeout =>
              ((inputs' # inputs /\ event'.type = "wheel") \/ ScrollTimerFires)
       /\ ScrollTimerFires =>
              /\ now >= scrollTimeout
              /\ isMouseDown => (active' = active /\ particles' = particles)
              /\ ~isMouseDown => (~active' /\ bloomFactor' = 0 /\ bloomParticles' = <<>>)
       /\ (event.type = "wheel" /\ active /\ ~active') =>
              (ScrollTimerFires /\ now >= scrollTimeout)]_vars

\* C16 as the code has it: the same, but a wheel-driven bloom is also
\* released, at once, by a touchend and by the mouseup of a held drag; the
\* timer is what waits for 1000 ms without a wheel event.
C16_WheelDebounceOfTimer ==
    [][/\ (inputs' # inputs /\ event'.type = "wheel") =>
              (scrollTimeout' = now + 1000 /\ active')
       /\ scrollTimeout' # scrollTimeout =>
              ((inputs' # inputs /\ event'.type = "wheel") \/ ScrollTimerFires)
       /\ ScrollTimerFires =>
              /\ now >= scrollTimeout
              /\ isMouseDown => (active' = active /\ particles' = particles)
              /\ ~isMouseDown => (~active' /\ bloomFactor' = 0 /\ bloomParticles' = <<>>)
       /\ (event.type = "wheel" /\ active /\ ~active') =>
              \/ ScrollTimerFires /\ now >= scrollTimeout
              \/ inputs' # inputs /\ event'.type \in {"touchend", "mouseup"}]_vars

\* C16 witness: a second wheel event, 500 ms after the first, has put the
\* release off: the first timer's due time has come and the bloom, now at
\* 0.2, is still held with the one timer due 1000 ms after the second event
C16_Witness ==
    /\ inputs = 1
    /\ event.type = "wheel"
    /\ bloomFactor = 20
    /\ active
    /\ now = WarmupDelay + ScrollReleaseDelay
    /\ scrollTimeout = now + 500

\* ------------------------------------------------------- SpecBurst
\* a hovering pointer whose auto-pulse may fire in every frame
MaxBurstFrames == 12
BurstDeltas == {16, MaxDt}
InitBurst == \E d \in BurstDeltas : Running(FreshPool(CalmDraws), Pointer(500, 370), d)

\* a frame arrives delta ms after the last one; the run opens with an
\* auto-pulse
BurstFrame ==
    /\ appPhase = "running"
    /\ frames < MaxBurstFrames
    /\ now' = now + delta
    /\ \E auto \in {0, 999} :
          /\ frames = 0 => auto > 700
          /\ RenderStep(delta, CalmDraws, auto)
    /\ UNCHANGED <<appPhase, generatorVars, mouse, delta, isReady, warmupDue, lastShakeTime,
                   bloomVars, inputVars>>

SpecBurst == InitBurst /\ [][BurstFrame]_vars

\* C17: the pulse list never holds more than 10 pulses; an update leaves
\* the survivors of the decay in their order, with at most one new pulse of
\* life 1.0 at the end, and when 10 survivors are live the add drops
\* exactly the oldest of them and keeps the new one.
C17_PulseCap ==
    /\ [](Len(pulses) <= 10)
    /\ [][frames' # frames =>
             LET kept == Survivors(pulses, delta)
             IN  \/ pulses' = kept
                 \/ /\ Len(pulses') > 0
                    /\ pulses'[Len(pulses')].life = Unit
                    /\ Len(kept) < 10
                    /\ pulses' = Append(kept, pulses'[Len(pulses')])
                 \/ /\ Len(pulses') > 0
                    /\ pulses'[Len(pulses')].life = Unit
                    /\ Len(kept) = 10
                    /\ pulses' = Append(Tail(kept), pulses'[Len(pulses')])]_vars

\* C17 witness: eleven frames of 16 ms have each added a pulse; the list
\* holds the ten of the last ten frames, and the first frame's pulse, which
\* would still have life left, is gone
C17_Witness ==
    /\ frames = 11
    /\ delta = 16
    /\ Len(pulses) = 10
    /\ \A k \in 1 .. 10 : pulses[k].life = Unit - (10 - k) * DecayOf(delta)
    /\ Unit - 10 * DecayOf(delta) > 0

\* C18: at the end of every ParticleSystem.update every particle's base
\* position lies within the domain radius: its distance from the origin is
\* a number and is at most 4000.
C18_WithinDomain ==
    [][frames' # frames =>
          \A i \in Idx :
              /\ VIsNum(particles'[i].pos)
              /\ NormSq(particles'[i].pos) <= 4000 * 4000]_vars

\* the part of C18 that the recycling test covers: a base position that is
\* a number is within the domain radius at the end of every update
C18_WithinDomainWhenFinite ==
    [][frames' # frames =>
          \A i \in Idx :
              VIsNum(particles'[i].pos) => NormSq(particles'[i].pos) <= 4000 * 4000]_vars

\* the step dispatches a devicemotion event of magnitude at most m
MotionUpTo(m) ==
    inputs' # inputs /\ event'.type = "devicemotion" /\ event'.magnitude <= m

\* C19: while Shaking every sample of magnitude above the sustain threshold
\* 3, those not above the start threshold 8 included, sets the last-active
\* timestamp to the time of the sample, and Shaking does not end in an
\* update that finds the last such sample at most 1500 ms old; a sample of
\* magnitude <= 3 never changes the timestamp; a sample of magnitude in
\* (3, 8] received while idle does not start Shaking.
C19_SustainHysteresis ==
    [][/\ (MotionAbove(3) /\ isReady /\ isShaking) =>
              (lastShakeTime' = now /\ isShaking')
       /\ MotionUpTo(3) => (lastShakeTime' = lastShakeTime /\ isShaking' = isShaking)
       /\ (MotionAbove(3) /\ MotionUpTo(8) /\ ~isShaking) =>
              (~isShaking' /\ lastShakeTime' = lastShakeTime /\ particles' = particles)
       /\ (isShaking /\ ~isShaking') => (frames' # frames /\ now - lastShakeTime > 1500)
       /\ (frames' # frames /\ isShaking /\ now - lastShakeTime <= 1500) => isShaking']_vars

\* C19 witness: a sample of magnitude 8, not above the start threshold, has
\* refreshed the timestamp of a shake that began more than 1500 ms ago, and
\* an update at that age has left the controller Shaking
C19_Witness ==
    /\ isShaking
    /\ inputs = 2
    /\ event.type = "devicemotion"
    /\ event.magnitude = 8
    /\ frames > 0
    /\ delta = 0
    /\ now - lastShakeTime <= 1500
    /\ \E k \in 1 .. Len(tweens) :
          tweens[k].kind = "proxy" /\ now - tweens[k].start > 1500

\* C20: until the warm-up delay of 2000 ms after ShakeController.init has
\* elapsed, no motion sample of any magnitude and no click changes the
\* shake controller's phase, its last-active timestamp, its shape index or
\* any particle.
C20_WarmupIgnoresInput ==
    [][(inputs' # inputs /\ event'.type \in {"devicemotion", "click"}
        /\ warmupDue >= 0 /\ now < warmupDue) =>
          /\ ~isReady
          /\ warmupDue = 2000
          /\ isShaking' = isShaking
          /\ lastShakeTime' = lastShakeTime
          /\ currentShapeIndex' = currentShapeIndex
          /\ particles' = particles
          /\ tweens' = tweens]_vars

\* C20 witness: a sample of magnitude 20 has arrived 1500 ms into the
\* warm-up; the controller is idle, its timestamp untouched, and no
\* particle has left the chaos the pool was created in
C20_Witness ==
    /\ appPhase = "running"
    /\ inputs = 1
    /\ event.type = "devicemotion"
    /\ event.magnitude = 20
    /\ now = 1500
    /\ ~isReady
    /\ ~isShaking
    /\ lastShakeTime = 0
    /\ currentShapeIndex = 0
    /\ tweens = <<>>
    /\ \A i \in Idx : particles[i].state = "chaos" /\ particles[i].shapeMix = 0

\* the step is an input event that starts a bloom gesture: a touchstart with
\* two touches, a mousedown with shift, or a wheel event while inactive
GestureStarts ==
    /\ inputs' # inputs
    /\ \/ event'.type = "touchstart" /\ Len(event'.touches) = 2
       \/ event'.type = "mousedown" /\ event'.shiftKey
       \/ event'.type = "wheel" /\ ~active

\* the bloom target updateBloom gives the particle at offset k of the range
\* under anchor center
HeartTarget(center, k) ==
    LET target == targetShapePoints[((k - 1) % Len(targetShapePoints)) + 1]
    IN  Vec(center[1] + target.x, center[2] - target.y, target.z)

\* C21: immediately after every bloom gesture start every particle of the
\* selected index range is blooming with zero velocity, has its own current
\* base position as bloom target, and bloomMix 0.
C21_StartTargetsOwnPosition ==
    [][GestureStarts =>
          /\ bloomParticles' = PoolSlice(particles)
          /\ \A k \in 1 .. Len(bloomParticles') :
                LET q == particles'[bloomParticles'[k]]
                IN  /\ q.state = "blooming"
                    /\ q.vel = Zero3
                    /\ q.bloom = q.pos
                    /\ q.bloomMix = 0]_vars

\* C21 as the code has it: after a gesture start the range is blooming with
\* zero velocity and already carries the targets of a bloom update, the
\* anchor plus heart point k mod N with bloomMix equal to bloomFactor; when
\* a touchstart or a shift mousedown starts the gesture on an inactive
\* controller that bloomMix is 0, so the render position is still the blend
\* of base position and shape target it was before.
C21_StartPushesTargets ==
    [][GestureStarts =>
          /\ bloomParticles' = PoolSlice(particles)
          /\ \A k \in 1 .. Len(bloomParticles') :
                LET i == bloomParticles'[k]
                    q == particles'[i]
                IN  /\ q.state = "blooming"
                    /\ q.vel = Zero3
                    /\ q.bloom = HeartTarget(center3D', k)
                    /\ q.bloomMix = bloomFactor'
                    /\ (~active /\ event'.type # "wheel") =>
                          /\ q.bloomMix = 0
                          /\ q.pos = particles[i].pos
                          /\ RenderPos(q) = VLerp(particles[i].pos, particles[i].shape,
                                                  particles[i].shapeMix)]_vars

\* C21 witness: a touchstart with two fingers 100 px apart has started a
\* pinch on the idle controller: the range is blooming at rest with bloomMix
\* 0 and a bloom target, the heart point, that is not its base position
C21_Witness ==
    /\ inputs = 1
    /\ event.type = "touchstart"
    /\ Len(event.touches) = 2
    /\ active
    /\ initialDistance = 100
    /\ bloomFactor = 0
    /\ bloomParticles = PoolSlice(particles)
    /\ bloomParticles # <<>>
    /\ \A k \in 1 .. Len(bloomParticles) :
          LET q == particles[bloomParticles[k]]
          IN  /\ q.state = "blooming"
              /\ q.vel = Zero3
              /\ q.bloomMix = 0
              /\ q.bloom = HeartTarget(center3D, k)
              /\ q.bloom # q.pos

\* C22: input-event handlers (motion sample, click, touch start, move and
\* end, mouse down, move and up, wheel) write controller fields only: no
\* field of a particle record changes in the step of an input event.
C22_HandlersLeaveParticles ==
    [][inputs' # inputs => particles' = particles]_vars

\* the part of C22 that holds: the pulse list, the render positions and the
\* frame count change in animation frames only
C22_HandlersLeaveFrameOutput ==
    [][inputs' # inputs =>
          (pulses' = pulses /\ positions' = positions /\ frames' = frames)]_vars

\* the two capacity tiers (window narrower than 600 px, or not): the store
\* capacity and the first index of the bloom pool
CapacityTiers == {[maxParticles |-> 12000, poolStart |-> 1000],
                  [maxParticles |-> 25000, poolStart |-> 2000]}
\* heartPoints of BloomController.init
HeartPointCount == 4000
\* poolEnd of BloomController.init for a tier
TierPoolEnd(tier) == Min(tier.poolStart + HeartPointCount, tier.maxParticles)
\* shapeLimit of createPool for a tier
TierShapeLimit(tier) == (tier.maxParticles * ShapeShareTenths) \div 10

\* C23: a particle's role is the one createPool gave it (shape below
\* floor(0.7 * capacity), background from there on) in every state; a
\* background particle is never forming or blooming and has shapeMix 0 and
\* bloomMix 0 whatever shake and bloom gestures arrive; and the bloom index
\* range lies inside the shape indices, in the store and in both capacity
\* tiers.
C23_BackgroundNeverMorphs ==
    /\ \A i \in DOMAIN particles :
          /\ particles[i].role = IF i < ShapeLimit THEN "shape" ELSE "background"
          /\ particles[i].role = "background" =>
                /\ particles[i].state = "chaos"
                /\ particles[i].shapeMix = 0
                /\ particles[i].bloomMix = 0
    /\ \A k \in 1 .. Len(bloomParticles) : bloomParticles[k] < ShapeLimit
    /\ PoolStart >= 0 /\ PoolEnd <= ShapeLimit
    /\ \A tier \in CapacityTiers :
          tier.poolStart >= 0 /\ TierPoolEnd(tier) <= TierShapeLimit(tier)

\* C23 witness: a shake has put shape particles into forming and a pinch has
\* taken the bloom range while the background particles drift on in chaos
C23_Witness ==
    /\ isShaking
    /\ active
    /\ bloomParticles # <<>>
    /\ \E i \in DOMAIN particles : particles[i].state = "forming"
    /\ \E i \in DOMAIN particles : particles[i].state = "blooming"
    /\ \E i \in DOMAIN particles : particles[i].role = "background"
    /\ \A i \in DOMAIN particles :
          particles[i].role = "background" =>
              (particles[i].state = "chaos" /\ particles[i].shapeMix = 0
               /\ particles[i].bloomMix = 0)

\* C24: once a bloom gesture has been released, bloomMix of every released
\* particle stays 0 until the next gesture start, also when the full-bloom
\* celebration was still in progress at the release: while the controller
\* is inactive no particle has a bloomMix other than 0.
C24_ReleasedStaysUnbloomed ==
    ~active => \A i \in DOMAIN particles : particles[i].bloomMix = 0

\* ------------------------------------------------------- SpecCycle
\* shake episodes in a row: the application met in an episode on any shape
\* of the catalogue, formed and past its sustain timeout, one frame due; a
\* pinch may start on top of the formed shape
ShapeIndices == 0 .. (Len(shapes) - 1)
\* the store a finished forming tween leaves for the shape at index k
ShakenPool(k) ==
    LET formed == FormParticles(FreshPool(CalmDraws), ShakePoints(shapes[k + 1]))
    IN  [i \in Idx |-> IF formed[i].state = "forming"
                       THEN [formed[i] EXCEPT !.shapeMix = MixOne]
                       ELSE formed[i]]
InitCycle ==
    \E k \in ShapeIndices :
        /\ appPhase = "running"
        /\ font = "outlines"
        /\ particles = ShakenPool(k)
        /\ positions = [i \in Idx |-> RenderPos(particles[i])]
        /\ pulses = <<>>
        /\ mouse = NoMouse
        /\ frames = 0
        /\ now = WarmupDelay
        /\ isReady = TRUE
        /\ warmupDue = 0 - 1
        /\ isShaking = TRUE
        /\ lastShakeTime = 0
        /\ currentShapeIndex = k
        /\ tweens = <<>>
        /\ inputs = 0
        /\ call = [method |-> "none"]
        /\ returned = <<>>
        /\ delta = 16
        /\ NoGesture
CycleNext ==
    \/ AdvanceTime
    \/ GsapTick
    \/ MotionSample
    \/ Click
    \/ TouchStart
    \/ Render
SpecCycle == InitCycle /\ [][CycleNext]_vars

ShakeActivates == ~isShaking /\ isShaking'

\* C26: on entering Shaking with a non-empty point set P, each shape
\* particle with store index i < |P| enters forming with zero velocity and
\* shape target P[i % |P|]; a shape particle without a point is not forming
\* after the activation and has shapeMix 0 unless it is blooming; background
\* particles are untouched.
C26_FormAssignsByIndex ==
    [][ShakeActivates =>
          LET P == ShakePoints(shapes[currentShapeIndex + 1])
          IN  P # <<>> =>
                \A i \in Idx :
                    LET q == particles'[i]
                        pt == P[(i % Len(P)) + 1]
                    IN  /\ q.role = particles[i].role
                        /\ (q.role = "shape" /\ i < Len(P)) =>
                              /\ q.state = "forming"
                              /\ q.vel = Zero3
                              /\ q.shape = Vec(pt.x, 0 - pt.y, pt.z)
                        /\ (q.role = "shape" /\ i >= Len(P)) =>
                              /\ q.state # "forming"
                              /\ q.state # "blooming" => q.shapeMix = 0
                        /\ q.role = "background" => q = particles[i]]_vars

\* C26 witness: a click has activated the shake on Love, whose outline
\* samples to one point: shape particle 0 is forming at rest on that point
\* and shape particle 1, which has no point, is not
C26_Witness ==
    /\ font = "outlines"
    /\ event.type = "click"
    /\ isShaking
    /\ lastShakeTime = now
    /\ currentShapeIndex = 0
    /\ Len(ShakePoints("Love")) = 1
    /\ particles[0].state = "forming"
    /\ particles[0].vel = Zero3
    /\ particles[0].shape = Vec(ShakePoints("Love")[1].x, 0 - ShakePoints("Love")[1].y,
                                ShakePoints("Love")[1].z)
    /\ particles[1].role = "shape"
    /\ particles[1].state # "forming"
    /\ particles[1].shapeMix = 0

\* ------------------------------------------------------- SpecBloom
\* pinches off the centre of the window: the idle application, a pinch held
\* at 0.4, and a pinch held at full bloom whose celebration is over and
\* whose lock holds.  The fingers went down 100 px apart around (250, 300).
BloomStart == <<Touch(200, 300), Touch(300, 300)>>
\* touch pairs of later moves: 150 px apart (0.4), 220 px (0.96) and twice
\* 250 px (1.0), each around another point
PartialMove == <<Touch(225, 500), Touch(375, 500)>>
NearFullMove == <<Touch(390, 400), Touch(610, 400)>>
FullMove == <<Touch(600, 200), Touch(850, 200)>>
BloomMoves == {PartialMove, NearFullMove, FullMove, <<Touch(100, 100), Touch(350, 100)>>}
HeldStages == {"idle", "partial", "full"}
\* the store a held pinch with factor f leaves (at full bloom the finished
\* celebration has brought bloomMix back to f)
PinchedPool(f) ==
    LET pool == FreshPool(CalmDraws)
        range == PoolSlice(pool)
    IN  Bloomed(Prepared(pool, range), range,
                Anchor(TouchMid(BloomStart).x, TouchMid(BloomStart).y), f)
InitBloom ==
    \E stage \in HeldStages :
        IF stage = "idle"
        THEN Running(FreshPool(CalmDraws), NoMouse, 0)
        ELSE LET f == IF stage = "full" THEN MixOne ELSE 40
                 last == IF stage = "full" THEN FullMove ELSE PartialMove
             IN  /\ RunningApp("outlines", PinchedPool(f), NoMouse, 0)
                 /\ active = TRUE
                 /\ initialDistance = TouchDistance(BloomStart)
                 /\ bloomFactor = f
                 /\ bloomParticles = PoolSlice(FreshPool(CalmDraws))
                 /\ center3D = Anchor(TouchMid(BloomStart).x, TouchMid(BloomStart).y)
                 /\ celebrated = (stage = "full")
                 /\ isLocked = (stage = "full")
                 /\ touchCenter = TouchMid(last)
                 /\ lockCenter = IF stage = "full" THEN TouchMid(FullMove) ELSE Touch(0, 0)
                 /\ isMouseDown = FALSE
                 /\ lastMouseY = 0
                 /\ scrollTimeout = 0 - 1
                 /\ event = [type |-> "touchmove", touches |-> last]
BloomNext ==
    \/ TouchStartOf({BloomStart})
    \/ TouchMoveOf(BloomMoves)
    \/ TouchEnd
    \/ AdvanceTime
    \/ GsapTick
    \/ Render
SpecBloom == InitBloom /\ [][BloomNext]_vars

\* the step is a continuous bloom update: a touchmove with two touches, a
\* shift mousemove of a held drag, or a wheel event, on the active controller
BloomUpdates ==
    /\ inputs' # inputs
    /\ active
    /\ \/ event'.type = "touchmove" /\ Len(event'.touches) = 2
       \/ event'.type = "mousemove" /\ event'.shiftKey /\ isMouseDown
       \/ event'.type = "wheel"

CelebrationTweens(tws) == {k \in 1 .. Len(tws) : tws[k].kind = "bloomMix"}
\* the step starts a celebration tween
CelebrationFires ==
    /\ inputs' # inputs
    /\ \E k \in CelebrationTweens(tweens') :
          /\ tweens'[k].start = now
          /\ tweens'[k].from = <<>>
          /\ tweens'[k].targets = SeqRange(bloomParticles')
    /\ Cardinality(CelebrationTweens(tweens')) > Cardinality(CelebrationTweens(tweens))

\* C28: within a bloom gesture the celebration fires at the first update in
\* which bloomFactor exceeds 0.99 and not again until bloomFactor has dropped
\* below 0.9: it fires exactly in the updates that find bloomFactor above
\* 0.99 with the celebrated flag down, raising the flag and the lock and
\* taking lockCenter from the touch centre, and the flag comes down only in
\* an update with bloomFactor below 0.9.  While the lock holds no event
\* changes lockCenter; the lock is cleared only by an update with bloomFactor
\* below 0.9 or by the release; an update with bloomFactor in [0.9, 0.99]
\* neither fires nor changes the flag or the lock.
C28_CelebrationEdge ==
    [][/\ CelebrationFires =>
              /\ Gt(bloomFactor', 99) /\ ~celebrated
              /\ celebrated' /\ isLocked' /\ lockCenter' = touchCenter'
       /\ (BloomUpdates /\ Gt(bloomFactor', 99) /\ ~celebrated) => CelebrationFires
       /\ (celebrated /\ ~celebrated') => (inputs' # inputs /\ Lt(bloomFactor', 90) /\ active')
       /\ (~celebrated /\ celebrated') => CelebrationFires
       /\ (isLocked /\ isLocked') => lockCenter' = lockCenter
       /\ (isLocked /\ ~isLocked') => (Lt(bloomFactor', 90) \/ ~active')
       /\ (~isLocked /\ isLocked') => CelebrationFires
       /\ (BloomUpdates /\ IsNum(bloomFactor') /\ bloomFactor' >= 90 /\ bloomFactor' <= 99) =>
              /\ ~CelebrationFires
              /\ celebrated' = celebrated
              /\ isLocked' = isLocked
              /\ lockCenter' = lockCenter]_vars

\* C28 witness: the pinch held at full bloom, locked around (725, 200), has
\* moved twice without dropping below 0.9 and is at full bloom around
\* (225, 100): no second celebration has fired and the lock still holds
\* where it was taken
C28_Witness ==
    /\ inputs = 2
    /\ event.type = "touchmove"
    /\ bloomFactor = MixOne
    /\ active
    /\ celebrated
    /\ isLocked
    /\ lockCenter = TouchMid(FullMove)
    /\ touchCenter # lockCenter
    /\ tweens = <<>>
    /\ now = WarmupDelay

\* the step is a tick of the gsap ticker
GsapTicks ==
    /\ inputs' = inputs
    /\ frames' = frames
    /\ now' = now
    /\ scrollTimeout' = scrollTimeout
    /\ isReady' = isReady
    /\ appPhase = "running"
    /\ tweens # <<>>

\* the forming tweens that animate particle i are all at or past their 1.0 s
FormingEaseOver(i) ==
    /\ \E k \in 1 .. Len(tweens) : tweens[k].kind = "proxy" /\ i \in tweens[k].targets
    /\ \A k \in 1 .. Len(tweens) :
          (tweens[k].kind = "proxy" /\ i \in tweens[k].targets) =>
              now - tweens[k].start >= FormDuration

\* C29: after a shake activation shapeMix of a forming particle starts at
\* 0, never decreases while the particle stays forming, is 1 once a tick
\* has rendered the forming tween at or past its 1.0 s, and stays 1; and a
\* tick writes shapeMix of no particle that is not forming.
C29_FormingEase ==
    [][appPhase = "running" =>
          /\ ShakeActivates =>
                \A i \in Idx :
                    particles'[i].state = "forming" => particles'[i].shapeMix = 0
          /\ \A i \in Idx :
                (particles[i].state = "forming" /\ particles'[i].state = "forming") =>
                    /\ particles'[i].shapeMix >= particles[i].shapeMix
                    /\ particles'[i].shapeMix <= MixOne
          /\ GsapTicks =>
                \A i \in Idx :
                    /\ particles[i].state # "forming" =>
                          particles'[i].shapeMix = particles[i].shapeMix
                    /\ (particles[i].state = "forming" /\ FormingEaseOver(i)) =>
                          particles'[i].shapeMix = MixOne]_vars

\* the part of C29 that holds: the easing tick leaves shapeMix of a particle
\* that is not forming alone, keeps that of a forming particle in [0, 1],
\* and writes 1 once the forming tween is over
C29_EaseWritesFormingOnly ==
    [][(appPhase = "running" /\ GsapTicks) =>
          \A i \in Idx :
              /\ particles[i].state # "forming" =>
                    particles'[i].shapeMix = particles[i].shapeMix
              /\ particles[i].state = "forming" =>
                    (particles'[i].shapeMix >= 0 /\ particles'[i].shapeMix <= MixOne)
              /\ (particles[i].state = "forming" /\ FormingEaseOver(i)) =>
                    particles'[i].shapeMix = MixOne]_vars

\* C30: the physics step of ParticleSystem.update (damping, speed-floor
\* boost, jitter, position += v * dt) applies to chaos particles only: the
\* step leaves velocity and base position of a forming or blooming particle
\* unchanged, also when a pulse is live or the pointer is near.  Stated of
\* what the update of a frame does to each such particle of the store, for
\* every draw.
C30_PhysicsOnlyInChaos ==
    [][(appPhase = "running" /\ frames' # frames) =>
          \A rnds \in DrawSeqs :
              \A i \in Idx :
                  particles[i].state \in {"forming", "blooming"} =>
                      LET q == StepParticle(particles[i], pulses, Min(MaxDt, delta), rnds[i])
                      IN  q.vel = particles[i].vel /\ q.pos = particles[i].pos]_vars

\* the part of C30 that holds: with no pulse alive the update leaves a
\* forming or blooming particle that is at rest inside the domain where it is
C30_AtRestWithoutPulse ==
    [][(appPhase = "running" /\ frames' # frames /\ pulses = <<>>) =>
          \A rnds \in DrawSeqs :
              \A i \in Idx :
                  (particles[i].state \in {"forming", "blooming"}
                   /\ particles[i].vel = Zero3
                   /\ VIsNum(particles[i].pos)
                   /\ NormSq(particles[i].pos) <= DomainRadius * DomainRadius) =>
                      StepParticle(particles[i], pulses, Min(MaxDt, delta), rnds[i])
                          = particles[i]]_vars

\* the Brownian jitter the physics step adds to a shape particle in chaos
ShapeJitter(rnd) == Vec(Centred(rnd.jx, 2), Centred(rnd.jy, 2), Centred(rnd.jz, 2))

\* C31: shape particles in chaos are not damped: the physics step of a
\* frame changes the velocity of a shape particle in chaos by the added
\* random jitter only (no pulse alive), so friction does not reduce its
\* speed.  Stated of what the step does to each such particle of the store,
\* for every draw.
C31_ShapeUndamped ==
    [][(appPhase = "running" /\ frames' # frames /\ pulses = <<>>) =>
          \A rnds \in DrawSeqs :
              \A i \in Idx :
                  (particles[i].role = "shape" /\ particles[i].state = "chaos"
                   /\ VIsNum(particles[i].vel)) =>
                      ChaosDrift(particles[i], rnds[i]).vel
                          = VAdd(particles[i].vel, ShapeJitter(rnds[i]))]_vars

\* C31 as the code has it: the friction multiplier 0.992 is applied to every
\* chaos particle, a shape particle's included, before the jitter is added
C31_ShapeDamped ==
    [][(appPhase = "running" /\ frames' # frames /\ pulses = <<>>) =>
          \A rnds \in DrawSeqs :
              \A i \in Idx :
                  (particles[i].role = "shape" /\ particles[i].state = "chaos"
                   /\ VIsNum(particles[i].vel)) =>
                      ChaosDrift(particles[i], rnds[i]).vel
                          = VAdd(Scaled(particles[i].vel, Friction, Unit),
                                 ShapeJitter(rnds[i]))]_vars

\* ------------------------------------------------------- SpecFrame
\* whole frames: the store at the rim of the domain under a pointer that
\* hovers at the centre of the window, a formed shake episode whose timeout
\* is due, and a held bloom gesture
InitFrame ==
    \/ \E rnds \in DrawSeqs, edge \in SUBSET Idx :
          Running(DriftedPool(rnds, edge), Pointer(InnerWidth \div 2, InnerHeight \div 2), 16)
    \/ InitCycle
    \/ InitGesture
FrameNext ==
    \/ AdvanceTime
    \/ GsapTick
    \/ Click
    \/ TouchStart
    \/ Render
SpecFrame == InitFrame /\ [][FrameNext]_vars

\* the store after the two controller updates of a frame: the shake
\* controller first (timeout explosion and chaos reset, then the forming
\* jitter), the bloom controller second
AfterControllers(rnds) ==
    LET exploded == IF isShaking /\ now - lastShakeTime > SustainTimeout
                    THEN setChaosMode(Explode(particles, rnds), FALSE, rnds)
                    ELSE particles
        shaken == ShakeJitter(exploded, rnds)
    IN  IF active THEN BloomJitter(shaken, bloomParticles, rnds) ELSE shaken

\* one particle through the loop body in the order pulse forces, physics,
\* integration (with the background rotation), recycling
AfterPhysics(p, dt, rnd) ==
    LET pushed == Pulsed(p, pulses, dt, rnd.kick)
        drifted == ChaosDrift(pushed, rnd)
        moved == Rotate(Integrate(drifted, dt), dt)
    IN  Recycle(moved, rnd)

\* C32: within one frame the steps run in the order shake controller
\* update, bloom controller update, then for each particle pulse forces,
\* physics and position integration, boundary recycling, and last the
\* render blend: the store after the frame is the store before it taken
\* through these steps in this order, the render positions are the blend of
\* that frame's post-recycle base positions with the targets and mixes held
\* in that frame, and the pulses that pushed with their life of before the
\* frame have decayed once after it (a pulse the frame adds has not).
C32_FrameOrder ==
    [][frames' # frames =>
          LET dt == Min(MaxDt, delta)
          IN  /\ \E rnds \in DrawSeqs :
                    particles' = [i \in Idx |->
                                     AfterPhysics(AfterControllers(rnds)[i], dt, rnds[i])]
              /\ \A i \in Idx : positions'[i] = TwoStageBlend(particles'[i])
              /\ \/ pulses' = Survivors(pulses, dt)
                 \/ /\ Len(pulses') = Min(PulseCap, Len(Survivors(pulses, dt)) + 1)
                    /\ pulses'[Len(pulses')].life = Unit
                    /\ \A k \in 1 .. (Len(pulses') - 1) :
                          \E j \in 1 .. Len(pulses) :
                              pulses'[k] = [pulses[j] EXCEPT !.life = @ - DecayOf(dt)]
              /\ frames' = frames + 1]_vars

\* C32 witness: two frames have run under the hovering pointer: the pulse
\* the first frame added has decayed once, a star that crossed the rim has
\* been recycled to the spawn shell and is inbound, and the render
\* position of every star is its base position of this frame
C32_Witness ==
    /\ frames = 2
    /\ Len(pulses) >= 1
    /\ pulses[1].life = Unit - DecayOf(MaxDt)
    /\ \E i \in Idx :
          /\ NormSq(particles[i].pos) <= (SpawnDist + 2) * (SpawnDist + 2)
          /\ Dot(particles[i].vel, particles[i].pos) < 0
    /\ \A i \in Idx :
          /\ particles[i].state = "chaos"
          /\ positions[i] = particles[i].pos


\* ---------------------------------------------------- SpecSegments
\* one path segment sampled by its interpolate method, at either step
\* (tenths): the pen at from, the controls c1 and c2, the end at to
SegmentEnds == {<<0, 0>>, <<1, 0>>, <<0, 3>>, <<20, 15>>}
SegmentKinds == {"interpolateLine", "interpolateQuad", "interpolateBezier"}
SegmentCalls ==
    { [method |-> kind, from |-> a, c1 |-> c, c2 |-> d, to |-> b, step |-> step,
       font |-> TRUE, pending |-> TRUE] :
        kind \in SegmentKinds, a \in SegmentEnds, b \in SegmentEnds,
        c \in SegmentEnds, d \in SegmentEnds, step \in {6, 10} }
InitSegments ==
    \E c \in SegmentCalls :
        /\ c.method = "interpolateLine" => c.c1 = c.from /\ c.c2 = c.to
        /\ c.method = "interpolateQuad" => c.c2 = c.to
        /\ Constructed(c)

\* interpolateLine(x1, y1, x2, y2, step, points) returns
SampleLine ==
    /\ call.method = "interpolateLine"
    /\ call.pending
    /\ returned' = interpolateLine(call.from[1], call.from[2], call.to[1], call.to[2],
                                   call.step)
    /\ call' = [call EXCEPT !.pending = FALSE]
    /\ UNCHANGED <<appPhase, storeVars, mouse, clock, shakeVars, tweens, bloomVars, inputVars,
                   font>>

\* interpolateQuad(x1, y1, cx, cy, x2, y2, step, points) returns
SampleQuad ==
    /\ call.method = "interpolateQuad"
    /\ call.pending
    /\ returned' = interpolateQuad(call.from[1], call.from[2], call.c1[1], call.c1[2],
                                   call.to[1], call.to[2], call.step)
    /\ call' = [call EXCEPT !.pending = FALSE]
    /\ UNCHANGED <<appPhase, storeVars, mouse, clock, shakeVars, tweens, bloomVars, inputVars,
                   font>>

\* interpolateBezier(x1, y1, cx1, cy1, cx2, cy2, x2, y2, step, points) returns
SampleBezier ==
    /\ call.method = "interpolateBezier"
    /\ call.pending
    /\ returned' = interpolateBezier(call.from[1], call.from[2], call.c1[1], call.c1[2],
                                     call.c2[1], call.c2[2], call.to[1], call.to[2],
                                     call.step)
    /\ call' = [call EXCEPT !.pending = FALSE]
    /\ UNCHANGED <<appPhase, storeVars, mouse, clock, shakeVars, tweens, bloomVars, inputVars,
                   font>>

SegmentsNext == SampleLine \/ SampleQuad \/ SampleBezier
SpecSegments == InitSegments /\ [][SegmentsNext]_vars

\* the control-polygon length of the segment of call c, in hundredths
PolygonLength(c) ==
    CASE c.method = "interpolateLine" ->
            Hypot100(c.to[1] - c.from[1], c.to[2] - c.from[2])
      [] c.method = "interpolateQuad" ->
            Hypot100(c.c1[1] - c.from[1], c.c1[2] - c.from[2])
            + Hypot100(c.to[1] - c.c1[1], c.to[2] - c.c1[2])
      [] OTHER ->
            Hypot100(c.c1[1] - c.from[1], c.c1[2] - c.from[2])
            + Hypot100(c.c2[1] - c.c1[1], c.c2[2] - c.c1[2])
            + Hypot100(c.to[1] - c.c2[1], c.to[2] - c.c2[2])
\* the least number of points the statement grants a segment of each kind
StatedMinimum(kind) ==
    CASE kind = "interpolateLine" -> 2 [] kind = "interpolateQuad" -> 5 [] OTHER -> 10

\* C33: text sampling emits for a path segment as many points as its
\* control-polygon length divided by the step, rounded down, holds, and
\* never fewer than 2 for a line, 5 for a quadratic and 10 for a cubic,
\* however short the segment; the last point emitted is the segment's end.
C33_SegmentCounts ==
    (call.method \in SegmentKinds /\ ~call.pending) =>
        /\ Len(returned) = Max(StatedMinimum(call.method),
                               StepsOf(PolygonLength(call), call.step))
        /\ returned[Len(returned)] = Pt(call.to[1], call.to[2], 0)

\* C33, as far as it holds: the count is the rounded-down quotient wherever
\* that is at least the stated minimum, quadratics and cubics never get
\* fewer than 5 and 10 points, a line always gets at least one point, and
\* the last point emitted is the segment's end.
C33_CountsAboveMinimum ==
    (call.method \in SegmentKinds /\ ~call.pending) =>
        /\ StepsOf(PolygonLength(call), call.step) >= StatedMinimum(call.method) =>
              Len(returned) = StepsOf(PolygonLength(call), call.step)
        /\ call.method # "interpolateLine" => Len(returned) >= StatedMinimum(call.method)
        /\ Len(returned) >= 1
        /\ returned[Len(returned)] = Pt(call.to[1], call.to[2], 0)


\* ------------------------------------------------------ SpecCenter
\* centerPoints called on a point sequence and then on what it returned.
\* The coordinates are even, so that halving the bounding box's extent is
\* exact in the model's unit as it is in the code's numbers; one point
\* carries a depth.
CenterInputs ==
    { Pt(x, y, 0) : x \in {0 - 4, 0, 2, 10}, y \in {0, 6} } \cup {Pt(6, 0 - 2, 8)}
MaxCenterPoints == 3
CenterLengths == 0 .. MaxCenterPoints
CenterCalls ==
    { [method |-> "centerPoints", points |-> ps, first |-> <<>>, stage |-> "called",
       font |-> TRUE, pending |-> TRUE] :
        ps \in UNION { [1 .. n -> CenterInputs] : n \in CenterLengths } }
InitCenter == \E c \in CenterCalls : Constructed(c)

\* centerPoints(points) returns
CenterPoints ==
    /\ call.method = "centerPoints"
    /\ call.stage = "called"
    /\ returned' = centerPoints(call.points)
    /\ call' = [call EXCEPT !.stage = "centred", !.pending = FALSE]
    /\ UNCHANGED <<appPhase, storeVars, mouse, clock, shakeVars, tweens, bloomVars, inputVars,
                   font>>

\* centerPoints(returned) returns; first keeps the earlier result
CenterAgain ==
    /\ call.method = "centerPoints"
    /\ call.stage = "centred"
    /\ returned' = centerPoints(returned)
    /\ call' = [call EXCEPT !.stage = "again", !.first = returned]
    /\ UNCHANGED <<appPhase, storeVars, mouse, clock, shakeVars, tweens, bloomVars, inputVars,
                   font>>

CenterNext == CenterPoints \/ CenterAgain
SpecCenter == InitCenter /\ [][CenterNext]_vars

\* C34: for every non-empty input centerPoints returns a sequence of the
\* same length and order (every point moved by one common offset in x and
\* y) whose x/y bounding-box midpoint is the origin, whatever the viewport;
\* for the empty input it returns the empty sequence; and applied to its
\* own output it returns the same points.
C34_CenterPoints ==
    (call.method = "centerPoints" /\ call.stage # "called") =>
        /\ Len(returned) = Len(call.points)
        /\ \A i, j \in 1 .. Len(returned) :
              /\ returned[i].x - returned[j].x = call.points[i].x - call.points[j].x
              /\ returned[i].y - returned[j].y = call.points[i].y - call.points[j].y
        /\ Len(returned) > 0 =>
              /\ SeqMin(returned, PX) + SeqMax(returned, PX) = 0
              /\ SeqMin(returned, PY) + SeqMax(returned, PY) = 0
        /\ call.points = <<>> => returned = <<>>
        /\ call.stage = "again" => returned = call.first

\* C34 witness: three points whose bounding box is off the origin on both
\* axes have been centred, and centred again to the same points
C34_Witness ==
    /\ call.method = "centerPoints"
    /\ call.stage = "again"
    /\ Len(call.points) = 3
    /\ SeqMin(call.points, PX) + SeqMax(call.points, PX) # 0
    /\ SeqMin(call.points, PY) + SeqMax(call.points, PY) # 0
    /\ call.points[1] # call.points[2]
    /\ returned = call.first
    /\ returned # call.points


\* the particles of the store in state "forming"
FormingSet(ps) == {i \in DOMAIN ps : ps[i].state = "forming"}

\* C35: in every reachable state, if the shake controller is not shaking
\* then no particle is forming; a particle enters "forming" only in a
\* step that activates a shake, and every step that leaves the shaking
\* state moves all forming particles back to chaos.
C35_FormingOnlyWhileShaking ==
    /\ [](~isShaking => FormingSet(particles) = {})
    /\ [][/\ \A i \in FormingSet(particles') \ FormingSet(particles) : ShakeActivates
          /\ (isShaking /\ ~isShaking') =>
                \A i \in FormingSet(particles) : particles'[i].state = "chaos"]_vars

\* C35 witness: a shake episode that had formed a shape has ended, and the
\* particle that was part of the shape is back in chaos, flying
C35_Witness ==
    /\ appPhase = "running"
    /\ ~isShaking
    /\ currentShapeIndex = 1
    /\ particles[0].state = "chaos"
    /\ particles[0].shapeMix = 0
    /\ particles[0].vel # Zero3


\* C36: in every reachable state the bloom controller is active exactly
\* when its active particle range is not empty, and every particle in
\* state "blooming" belongs to the range of the active controller: none is
\* blooming while the controller is idle, whatever the interleaving of
\* touch, mouse, wheel and timer events.
C36_BloomingWithinActiveRange ==
    /\ active <=> bloomParticles # <<>>
    /\ \A i \in DOMAIN particles :
          particles[i].state = "blooming" => active /\ i \in SeqRange(bloomParticles)

\* C36 witness: a gesture is held during a shake episode, and the particle
\* of the range is blooming
C36_Witness ==
    /\ active
    /\ isShaking
    /\ bloomParticles = <<PoolStart>>
    /\ particles[PoolStart].state = "blooming"


\* the particles of the store in state "blooming"
BloomingSet(ps) == {i \in DOMAIN ps : ps[i].state = "blooming"}
\* particle q is particle p still blooming, its velocity and both mixes kept
StillBlooming(p, q) ==
    /\ q.state = "blooming"
    /\ q.vel = p.vel
    /\ q.shapeMix = p.shapeMix
    /\ q.bloomMix = p.bloomMix

\* C37: no shake-controller operation interrupts a bloom: a particle that
\* is blooming when a shake activation, the timeout explosion or the chaos
\* reset runs is still blooming afterwards, with its velocity and both
\* mixes unchanged.
C37_ShakeSparesBloom ==
    [][appPhase = "running" =>
          /\ ShakeActivates =>
                \A i \in BloomingSet(particles) : StillBlooming(particles[i], particles'[i])
          /\ \A rnds \in DrawSeqs : \A i \in BloomingSet(particles) :
                /\ StillBlooming(particles[i], Explode(particles, rnds)[i])
                /\ StillBlooming(particles[i], setChaosMode(particles, FALSE, rnds)[i])
                /\ StillBlooming(particles[i], StoppedParticles(particles, rnds)[i])]_vars

\* C37, as far as it holds: the timeout explosion and the chaos reset leave
\* every blooming particle as it is, and a shake activation leaves alone
\* the blooming particles whose index is not below the number of points of
\* the shape.
C37_ExplosionSparesBloom ==
    [][appPhase = "running" =>
          /\ ShakeActivates =>
                \A i \in BloomingSet(particles) :
                    i >= Len(ShakePoints(shapes[currentShapeIndex + 1])) =>
                        particles'[i] = particles[i]
          /\ \A rnds \in DrawSeqs : \A i \in BloomingSet(particles) :
                /\ Explode(particles, rnds)[i] = particles[i]
                /\ setChaosMode(particles, FALSE, rnds)[i] = particles[i]
                /\ StoppedParticles(particles, rnds)[i] = particles[i]]_vars


\* C38: the shake timeout explosion changes position, velocity, shapeMix
\* and state only of the particles that were forming at that moment, and
\* those leave with the explosion impulse (speed drawn from 150-300);
\* every other particle, background particles and shape particles that
\* were not part of the shape, keeps its position and velocity.  Stated
\* of stopShaking in the states where the timeout is due.
C38_ExplosionOnlyForming ==
    (appPhase = "running" /\ TimedOut) =>
        \A rnds \in DrawSeqs :
            LET after == StoppedParticles(particles, rnds)
            IN  \A i \in DOMAIN particles :
                    IF particles[i].state = "forming"
                    THEN /\ after[i].pos = particles[i].shape
                         /\ after[i].shapeMix = 0
                         /\ after[i].state = "chaos"
                         /\ after[i].vel = Blast(150, 150, rnds[i])
                    ELSE /\ after[i].pos = particles[i].pos
                         /\ after[i].vel = particles[i].vel
                         /\ after[i].shapeMix = particles[i].shapeMix
                         /\ after[i].state = particles[i].state

\* C38, as far as it holds: stopShaking moves the forming particles onto
\* their shape targets with shapeMix 0 and state chaos, and every other
\* particle keeps its position, shapeMix and state; only the blooming
\* particles keep their velocity, every other particle leaves with the
\* impulse of the chaos reset (120-200).
C38_ExplosionThenReset ==
    (appPhase = "running" /\ TimedOut) =>
        \A rnds \in DrawSeqs :
            LET after == StoppedParticles(particles, rnds)
            IN  \A i \in DOMAIN particles :
                    /\ IF particles[i].state = "forming"
                       THEN /\ after[i].pos = particles[i].shape
                            /\ after[i].shapeMix = 0
                            /\ after[i].state = "chaos"
                       ELSE /\ after[i].pos = particles[i].pos
                            /\ after[i].shapeMix = particles[i].shapeMix
                            /\ after[i].state = particles[i].state
                    /\ after[i].vel = IF particles[i].state = "blooming" THEN particles[i].vel
                                      ELSE Blast(120, 80, rnds[i])


\* the step delivers a motion sample or a click to a controller that is
\* shaking
ShakenAgain == isShaking /\ inputs' # inputs /\ event'.type \in {"devicemotion", "click"}
\* such a step activates nothing: no shapeTarget or other particle field is
\* written, no tween is killed or created, the shape index and the shaking
\* flag stay
NothingActivated ==
    /\ particles' = particles
    /\ tweens' = tweens
    /\ currentShapeIndex' = currentShapeIndex
    /\ isShaking'

\* C39, as stated: activation runs once per shaking episode; while shaking,
\* a sample above the start threshold or a click refreshes the last-active
\* timestamp and does nothing else: it never regenerates the point set,
\* reassigns a shapeTarget, restarts the shapeMix easing or changes the
\* shape index.
C39_RefreshOnly ==
    [][ShakenAgain =>
          /\ NothingActivated
          /\ (event'.type = "click" \/ event'.magnitude > ShakeThreshold) =>
                lastShakeTime' = now]_vars

\* C39, amended: activation runs once per shaking episode; while shaking, a
\* motion sample above the sustain threshold (so every sample above the
\* start threshold) refreshes the last-active timestamp and does nothing
\* else, and a click or a weaker sample does nothing at all, the timestamp
\* included.
C39_ActivationOncePerEpisode ==
    [][ShakenAgain =>
          /\ NothingActivated
          /\ lastShakeTime' = IF event'.type = "devicemotion"
                                 /\ event'.magnitude > SustainThreshold
                              THEN now ELSE lastShakeTime]_vars

\* C39 witness: a sample above the start threshold has refreshed the
\* timestamp of an episode whose one forming tween is the older one of the
\* activation
C39_Witness ==
    /\ isShaking
    /\ event.type = "devicemotion"
    /\ event.magnitude > ShakeThreshold
    /\ inputs = 2
    /\ lastShakeTime = now
    /\ Len(tweens) = 1
    /\ tweens[1].kind = "proxy"
    /\ tweens[1].start < lastShakeTime
    /\ particles[0].state = "forming"
=============================================================================
